---- MODULE Spec2Model ----
(***************************************************************************)
(* Notification delivery state machine of TriVita-Backend:                 *)
(*   app/db/notification_state.py          the State Store                 *)
(*   app/scheduler/notification_scheduler.py  schedule builder, seeding    *)
(*                                          job and the cycle engine       *)
(*   app/routes/notifications.py           the action handlers             *)
(*   app/services/fcm_service.py           the delivery gateway            *)
(* Instants are minutes since 00:00 UTC of day 0; a calendar date is a day *)
(* index.                                                                  *)
(***************************************************************************)
EXTENDS Integers, Sequences, FiniteSets, TLC

VARIABLES
    now,                  \* wall clock, datetime.now(timezone.utc)
    users,                \* db["users"]: uid -> [fcm_token, notification_prefs]
    notification_states,  \* db["notification_states"], in insertion order
    daily_logs,           \* db["daily_logs"], in insertion order
    cycle_pc,             \* position of the cycle pass in flight
    cycle_now,            \* `now` captured by the pass (line 212)
    states,               \* documents loaded by the pass, not yet evaluated
    token_map,            \* uid -> token, fetched once per pass
    stale_uids,           \* uids whose token failed as unregistered in the pass
    result,               \* gateway outcome awaiting its state write
    stats,                \* counters of the pass in flight, or of the last one
    parked                \* a second pass suspended at an await, or NoPass

vars == <<now, users, notification_states, daily_logs,
          cycle_pc, cycle_now, states, token_map, stale_uids, result, stats, parked>>

-----------------------------------------------------------------------------
(* Bounds of the model *)

MaxTime == 45
MaxLogEntries == 1

-----------------------------------------------------------------------------
(* Program constants *)

REMINDER_15_MINUTES == 15
SCHEDULER_INTERVAL_MINUTES == 5
HYDRATION_ML_PER_SLOT == 250
MinutesPerDay == 1440

None == -1
Absent == "<absent>"         \* a field the document does not carry
NoPrefs == [absent |-> TRUE]  \* a user document without notification_prefs

SNOOZE_MINUTES == [need_15_min |-> 15, need_30_min |-> 30]

NUTRITION_MEAL_TYPES ==
    {"breakfast", "mid_morning", "lunch", "afternoon_break", "dinner", "post_dinner"}

TERMINAL == {"resolved", "expired"}

Uids == {"u1"}
UserOrder == <<"u1">>

-----------------------------------------------------------------------------
(* Time-of-day strings are sequences of characters *)

DigitVal == [c \in {"0", "1", "2", "3", "4", "5", "6", "7", "8", "9"} |->
               CASE c = "0" -> 0 [] c = "1" -> 1 [] c = "2" -> 2 [] c = "3" -> 3
                 [] c = "4" -> 4 [] c = "5" -> 5 [] c = "6" -> 6 [] c = "7" -> 7
                 [] c = "8" -> 8 [] c = "9" -> 9]

IsDigits(s) == \A i \in 1..Len(s) : s[i] \in DOMAIN DigitVal

NumVal(s) == IF Len(s) = 1 THEN DigitVal[s[1]]
             ELSE 10 * DigitVal[s[1]] + DigitVal[s[2]]

\* datetime.strptime(..., "%H:%M"): one or two digits, hour <= 23, a colon,
\* one or two digits, minute <= 59, and nothing else
ColonAt(s) == {i \in 1..Len(s) : s[i] = ":"}

StrpTimeOk(s) ==
    /\ Cardinality(ColonAt(s)) = 1
    /\ LET i == CHOOSE j \in ColonAt(s) : TRUE
           h == SubSeq(s, 1, i - 1)
           m == SubSeq(s, i + 1, Len(s))
       IN  /\ Len(h) \in {1, 2} /\ IsDigits(h) /\ NumVal(h) <= 23
           /\ Len(m) \in {1, 2} /\ IsDigits(m) /\ NumVal(m) <= 59

StrpTime(s) ==
    LET i == CHOOSE j \in ColonAt(s) : TRUE
    IN  60 * NumVal(SubSeq(s, 1, i - 1)) + NumVal(SubSeq(s, i + 1, Len(s)))

\* an unknown zone taken as the default zone
UtcOffset_unknown_is_default(tz_name) ==
    CASE tz_name = "Asia/Kolkata" -> 330
      [] tz_name = "UTC"          -> 0
      [] OTHER                    -> 330

\* pytz.timezone(tz_name), UnknownTimeZoneError falling back to pytz.utc
UtcOffset(tz_name) ==
    CASE tz_name = "Asia/Kolkata" -> 330
      [] tz_name = "UTC"          -> 0
      [] OTHER                    -> 0

\* _parse_local_time: the UTC instant, or a ValueError from strptime
ParseRaises(time_str) == ~StrpTimeOk(time_str)

\* _parse_local_time converting in the wrong direction
_parse_local_time_adds_offset(time_str, date_str, tz_name) ==
    date_str * MinutesPerDay + StrpTime(time_str) + UtcOffset(tz_name)

_parse_local_time(time_str, date_str, tz_name) ==
    date_str * MinutesPerDay + StrpTime(time_str) - UtcOffset(tz_name)

\* datetime.strftime("%Y-%m-%d") of an instant
DateOf(t) == t \div MinutesPerDay

-----------------------------------------------------------------------------
(* Schedule builder *)

DEFAULT_PREFS == [
    timezone             |-> "Asia/Kolkata",
    global_enabled       |-> TRUE,
    sleep_enabled        |-> TRUE,
    hydration_enabled    |-> TRUE,
    nutrition_enabled    |-> TRUE,
    wake_time            |-> <<"0", "7", ":", "0", "0">>,
    bedtime_time         |-> <<"2", "2", ":", "3", "0">>,
    breakfast_time       |-> <<"0", "8", ":", "0", "0">>,
    mid_morning_time     |-> <<"1", "0", ":", "3", "0">>,
    lunch_time           |-> <<"1", "3", ":", "0", "0">>,
    afternoon_break_time |-> <<"1", "6", ":", "0", "0">>,
    dinner_time          |-> <<"1", "9", ":", "3", "0">>,
    post_dinner_time     |-> <<"2", "1", ":", "0", "0">>,
    hydration_1_time     |-> <<"0", "8", ":", "4", "5">>,
    hydration_2_time     |-> <<"1", "0", ":", "3", "0">>,
    hydration_3_time     |-> <<"1", "2", ":", "1", "5">>,
    hydration_4_time     |-> <<"1", "4", ":", "0", "0">>,
    hydration_5_time     |-> <<"1", "5", ":", "4", "5">>,
    hydration_6_time     |-> <<"1", "7", ":", "3", "0">>,
    hydration_7_time     |-> <<"1", "9", ":", "1", "5">>,
    hydration_8_time     |-> <<"2", "1", ":", "0", "0">>]

\* the three slot maps of _build_schedule, in the order they are walked
SlotTable == <<
    [slot_label |-> "wake",            notification_type |-> "wake",            key |-> "wake_time",            flag |-> "sleep_enabled"],
    [slot_label |-> "bedtime",         notification_type |-> "bedtime",         key |-> "bedtime_time",         flag |-> "sleep_enabled"],
    [slot_label |-> "breakfast",       notification_type |-> "breakfast",       key |-> "breakfast_time",       flag |-> "nutrition_enabled"],
    [slot_label |-> "mid_morning",     notification_type |-> "mid_morning",     key |-> "mid_morning_time",     flag |-> "nutrition_enabled"],
    [slot_label |-> "lunch",           notification_type |-> "lunch",           key |-> "lunch_time",           flag |-> "nutrition_enabled"],
    [slot_label |-> "afternoon_break", notification_type |-> "afternoon_break", key |-> "afternoon_break_time", flag |-> "nutrition_enabled"],
    [slot_label |-> "dinner",          notification_type |-> "dinner",          key |-> "dinner_time",          flag |-> "nutrition_enabled"],
    [slot_label |-> "post_dinner",     notification_type |-> "post_dinner",     key |-> "post_dinner_time",     flag |-> "nutrition_enabled"],
    [slot_label |-> "hydration_1",     notification_type |-> "hydration",       key |-> "hydration_1_time",     flag |-> "hydration_enabled"],
    [slot_label |-> "hydration_2",     notification_type |-> "hydration",       key |-> "hydration_2_time",     flag |-> "hydration_enabled"],
    [slot_label |-> "hydration_3",     notification_type |-> "hydration",       key |-> "hydration_3_time",     flag |-> "hydration_enabled"],
    [slot_label |-> "hydration_4",     notification_type |-> "hydration",       key |-> "hydration_4_time",     flag |-> "hydration_enabled"],
    [slot_label |-> "hydration_5",     notification_type |-> "hydration",       key |-> "hydration_5_time",     flag |-> "hydration_enabled"],
    [slot_label |-> "hydration_6",     notification_type |-> "hydration",       key |-> "hydration_6_time",     flag |-> "hydration_enabled"],
    [slot_label |-> "hydration_7",     notification_type |-> "hydration",       key |-> "hydration_7_time",     flag |-> "hydration_enabled"],
    [slot_label |-> "hydration_8",     notification_type |-> "hydration",       key |-> "hydration_8_time",     flag |-> "hydration_enabled"]>>

SlotLabels == {SlotTable[i].slot_label : i \in 1..Len(SlotTable)}

\* prefs = {**DEFAULT_PREFS, **(user_doc.get("notification_prefs") or {})}
\* saved preferences always carry every field (NotificationPrefsRequest)
MergedPrefs(user_doc) ==
    IF user_doc.notification_prefs = NoPrefs THEN DEFAULT_PREFS
    ELSE user_doc.notification_prefs @@ DEFAULT_PREFS

\* the walk without the category flags
SlotWalked_ignores_flag(prefs, e) == prefs[e.key] # <<>>

\* a slot is walked when its category is enabled and its time is truthy
SlotWalked(prefs, e) == prefs[e.flag] /\ prefs[e.key] # <<>>

\* _build_schedule raises when strptime rejects the time of a walked slot
BuildRaises(user_doc) ==
    LET prefs == MergedPrefs(user_doc)
    IN  /\ prefs.global_enabled
        /\ \E i \in 1..Len(SlotTable) :
              SlotWalked(prefs, SlotTable[i]) /\ ParseRaises(prefs[SlotTable[i].key])

\* _build_schedule without the global switch
_build_schedule_ignores_global(user_doc, date_str, skip_past, now_utc) ==
    LET prefs == MergedPrefs(user_doc)
        Utc(e) == _parse_local_time(prefs[e.key], date_str, prefs.timezone)
        Kept(e) == /\ SlotWalked(prefs, e)
                   /\ StrpTimeOk(prefs[e.key])
                   /\ (~skip_past \/ Utc(e) >= now_utc)
        kept == SelectSeq(SlotTable, Kept)
    IN  [i \in 1..Len(kept) |->
            [slot_label        |-> kept[i].slot_label,
             notification_type |-> kept[i].notification_type,
             scheduled_utc     |-> Utc(kept[i])]]

\* _build_schedule that drops past slots whatever skip_past is
_build_schedule_always_skips(user_doc, date_str, skip_past, now_utc) ==
    LET prefs == MergedPrefs(user_doc)
        Utc(e) == _parse_local_time(prefs[e.key], date_str, prefs.timezone)
        Kept(e) == /\ SlotWalked(prefs, e)
                   /\ Utc(e) >= now_utc
        kept == SelectSeq(SlotTable, Kept)
    IN  IF ~prefs.global_enabled THEN <<>>
        ELSE [i \in 1..Len(kept) |->
                [slot_label        |-> kept[i].slot_label,
                 notification_type |-> kept[i].notification_type,
                 scheduled_utc     |-> Utc(kept[i])]]

\* _build_schedule that returns past slots whatever skip_past is
_build_schedule_keeps_past(user_doc, date_str, skip_past, now_utc) ==
    LET prefs == MergedPrefs(user_doc)
        Utc(e) == _parse_local_time(prefs[e.key], date_str, prefs.timezone)
        Kept(e) == SlotWalked(prefs, e)
        kept == SelectSeq(SlotTable, Kept)
    IN  IF ~prefs.global_enabled THEN <<>>
        ELSE [i \in 1..Len(kept) |->
                [slot_label        |-> kept[i].slot_label,
                 notification_type |-> kept[i].notification_type,
                 scheduled_utc     |-> Utc(kept[i])]]

_build_schedule(user_doc, date_str, skip_past, now_utc) ==
    LET prefs == MergedPrefs(user_doc)
        Utc(e) == _parse_local_time(prefs[e.key], date_str, prefs.timezone)
        Kept(e) == /\ SlotWalked(prefs, e)
                   /\ (~skip_past \/ Utc(e) >= now_utc)
        kept == SelectSeq(SlotTable, Kept)
    IN  IF ~prefs.global_enabled THEN <<>>
        ELSE [i \in 1..Len(kept) |->
                [slot_label        |-> kept[i].slot_label,
                 notification_type |-> kept[i].notification_type,
                 scheduled_utc     |-> Utc(kept[i])]]

-----------------------------------------------------------------------------
(* State Store *)

KeyMatch(d, firebase_uid, date, slot_label) ==
    d.firebase_uid = firebase_uid /\ d.date = date /\ d.slot_label = slot_label

Matches(col, firebase_uid, date, slot_label) ==
    {i \in 1..Len(col) : KeyMatch(col[i], firebase_uid, date, slot_label)}

\* update_one touches the first matching document
FirstMatch(col, firebase_uid, date, slot_label) ==
    CHOOSE i \in Matches(col, firebase_uid, date, slot_label) :
        \A j \in Matches(col, firebase_uid, date, slot_label) : i <= j

\* upsert_state inserting without looking for the key
upsert_state_inserts(col, firebase_uid, date, slot_label, notification_type, scheduled_utc, status, kwargs) ==
    Append(col, kwargs @@
               [firebase_uid      |-> firebase_uid,
                date              |-> date,
                slot_label        |-> slot_label,
                notification_type |-> notification_type,
                scheduled_utc     |-> scheduled_utc,
                status            |-> status,
                sent_at           |-> None,
                reminded_15_at    |-> None,
                reminded_30_at    |-> None,
                resolved_at       |-> None,
                action_taken      |-> "None"])

\* upsert_state as a conditional update: a resolved or expired document is
\* left alone
upsert_state_guarded(col, firebase_uid, date, slot_label, notification_type, scheduled_utc, status, kwargs) ==
    LET set == [notification_type |-> notification_type,
                scheduled_utc     |-> scheduled_utc,
                status            |-> status] @@ kwargs
        inserted == kwargs @@
               [firebase_uid      |-> firebase_uid,
                date              |-> date,
                slot_label        |-> slot_label,
                notification_type |-> notification_type,
                scheduled_utc     |-> scheduled_utc,
                status            |-> status,
                sent_at           |-> None,
                reminded_15_at    |-> None,
                reminded_30_at    |-> None,
                resolved_at       |-> None,
                action_taken      |-> "None"]
    IN  IF Matches(col, firebase_uid, date, slot_label) = {}
        THEN Append(col, inserted)
        ELSE LET i == FirstMatch(col, firebase_uid, date, slot_label)
             IN  IF col[i].status \in TERMINAL THEN col
                 ELSE [col EXCEPT ![i] = set @@ col[i]]

\* upsert_state: $set of notification_type, scheduled_utc, status and kwargs;
\* the remaining fields only on insert.  kwargs is a record of stage stamps.
upsert_state(col, firebase_uid, date, slot_label, notification_type, scheduled_utc, status, kwargs) ==
    LET set == [notification_type |-> notification_type,
                scheduled_utc     |-> scheduled_utc,
                status            |-> status] @@ kwargs
        inserted == kwargs @@
               [firebase_uid      |-> firebase_uid,
                date              |-> date,
                slot_label        |-> slot_label,
                notification_type |-> notification_type,
                scheduled_utc     |-> scheduled_utc,
                status            |-> status,
                sent_at           |-> None,
                reminded_15_at    |-> None,
                reminded_30_at    |-> None,
                resolved_at       |-> None,
                action_taken      |-> "None"]
    IN  IF Matches(col, firebase_uid, date, slot_label) = {}
        THEN Append(col, inserted)
        ELSE LET i == FirstMatch(col, firebase_uid, date, slot_label)
             IN  [col EXCEPT ![i] = set @@ col[i]]

\* mark_resolved recording the action but forgetting the status
mark_resolved_keeps_status(col, firebase_uid, date, slot_label, action_taken, at) ==
    IF Matches(col, firebase_uid, date, slot_label) = {} THEN col
    ELSE LET i == FirstMatch(col, firebase_uid, date, slot_label)
         IN  [col EXCEPT ![i] = [resolved_at  |-> at,
                                 action_taken |-> action_taken] @@ col[i]]

\* mark_resolved as an update_many over the user's slots of the date
mark_resolved_all_slots(col, firebase_uid, date, slot_label, action_taken, at) ==
    [i \in 1..Len(col) |->
        IF col[i].firebase_uid = firebase_uid /\ col[i].date = date
        THEN [status       |-> "resolved",
              resolved_at  |-> at,
              action_taken |-> action_taken] @@ col[i]
        ELSE col[i]]

\* mark_resolved: update_one without upsert
mark_resolved(col, firebase_uid, date, slot_label, action_taken, at) ==
    IF Matches(col, firebase_uid, date, slot_label) = {} THEN col
    ELSE LET i == FirstMatch(col, firebase_uid, date, slot_label)
         IN  [col EXCEPT ![i] = [status       |-> "resolved",
                                 resolved_at  |-> at,
                                 action_taken |-> action_taken] @@ col[i]]

\* update_scheduled_utc pushing the instant but forgetting the status reset
update_scheduled_utc_keeps_status(col, firebase_uid, date, slot_label, new_scheduled_utc, new_status) ==
    IF Matches(col, firebase_uid, date, slot_label) = {} THEN col
    ELSE LET i == FirstMatch(col, firebase_uid, date, slot_label)
         IN  [col EXCEPT ![i] = [scheduled_utc  |-> new_scheduled_utc,
                                 sent_at        |-> None,
                                 reminded_15_at |-> None,
                                 reminded_30_at |-> None] @@ col[i]]

\* update_scheduled_utc leaving the first stage stamp behind
update_scheduled_utc_keeps_sent_at(col, firebase_uid, date, slot_label, new_scheduled_utc, new_status) ==
    IF Matches(col, firebase_uid, date, slot_label) = {} THEN col
    ELSE LET i == FirstMatch(col, firebase_uid, date, slot_label)
         IN  [col EXCEPT ![i] = [scheduled_utc  |-> new_scheduled_utc,
                                 status         |-> new_status,
                                 reminded_15_at |-> None,
                                 reminded_30_at |-> None] @@ col[i]]

\* update_scheduled_utc: update_one without upsert
update_scheduled_utc(col, firebase_uid, date, slot_label, new_scheduled_utc, new_status) ==
    IF Matches(col, firebase_uid, date, slot_label) = {} THEN col
    ELSE LET i == FirstMatch(col, firebase_uid, date, slot_label)
         IN  [col EXCEPT ![i] = [scheduled_utc  |-> new_scheduled_utc,
                                 status         |-> new_status,
                                 sent_at        |-> None,
                                 reminded_15_at |-> None,
                                 reminded_30_at |-> None] @@ col[i]]

\* get_all_pending_states
get_all_pending_states(col, date) ==
    SelectSeq(col, LAMBDA d : d.date = date /\ d.status \notin TERMINAL)

-----------------------------------------------------------------------------
(* Health-log store: one document per (user, date) *)

NewLog(firebase_uid, date) ==
    [firebase_uid      |-> firebase_uid,
     date              |-> date,
     wake_time         |-> None,
     bed_time          |-> None,
     hydration_entries |-> <<>>,
     total_ml          |-> 0,
     nutrition_entries |-> <<>>]

LogMatches(col, firebase_uid, date) ==
    {i \in 1..Len(col) : col[i].firebase_uid = firebase_uid /\ col[i].date = date}

\* the health-log fact quick_log writes for a notification_type; of an entry
\* the model keeps what identifies the fact (amount, meal type), not the
\* time-of-day and source fields pushed along with it
LogFact(notification_type, hhmm, doc) ==
    CASE notification_type = "wake"      -> [doc EXCEPT !.wake_time = hhmm]
      [] notification_type = "bedtime"   -> [doc EXCEPT !.bed_time = hhmm]
      [] notification_type = "hydration" ->
            [doc EXCEPT !.hydration_entries =
                            Append(@, [amount_ml |-> HYDRATION_ML_PER_SLOT]),
                        !.total_ml = @ + HYDRATION_ML_PER_SLOT]
      [] notification_type \in NUTRITION_MEAL_TYPES ->
            [doc EXCEPT !.nutrition_entries =
                            Append(@, [meal_type |-> notification_type])]
      [] OTHER -> doc

\* logs_col.update_one(..., upsert=True) writing the fact to the day's document
LogUpsert(col, firebase_uid, date, notification_type, hhmm) ==
    IF LogMatches(col, firebase_uid, date) = {}
    THEN Append(col, LogFact(notification_type, hhmm, NewLog(firebase_uid, date)))
    ELSE LET i == CHOOSE j \in LogMatches(col, firebase_uid, date) :
                     \A k \in LogMatches(col, firebase_uid, date) : j <= k
         IN  [col EXCEPT ![i] = LogFact(notification_type, hhmm, col[i])]

LogOf(col, firebase_uid, date) ==
    IF LogMatches(col, firebase_uid, date) = {} THEN NewLog(firebase_uid, date)
    ELSE col[CHOOSE j \in LogMatches(col, firebase_uid, date) : TRUE]

\* the number of facts a day's document holds
LogFacts(doc) ==
    Len(doc.hydration_entries) + Len(doc.nutrition_entries)
      + (IF doc.wake_time = None THEN 0 ELSE 1) + (IF doc.bed_time = None THEN 0 ELSE 1)

\* _now_hhmm: the current time of day in the user's timezone
KnownTimezones == {"Asia/Kolkata", "UTC"}

_now_hhmm(tz_name, at) == (at + UtcOffset(tz_name)) % MinutesPerDay

-----------------------------------------------------------------------------
(* Inputs *)

TickSteps == {REMINDER_15_MINUTES}

RegisterTokens == {"tok"}

SleepOnly(wake, bed) ==
    [DEFAULT_PREFS EXCEPT !.timezone = "UTC",
                          !.hydration_enabled = FALSE,
                          !.nutrition_enabled = FALSE,
                          !.wake_time = wake,
                          !.bedtime_time = bed]

PrefsChoices == {SleepOnly(<<"0", "0", ":", "0", "0">>, <<>>),
                 SleepOnly(<<"0", "0", ":", "2", "0">>, <<>>)}

QuickLogTypes == {"hydration", "custom"}
QuickLogSlots == {"wake", "bedtime"}
QuickLogActions == {"yes", "need_15_min", "need_30_min", "ml_500"}
GatewayOutcomes == {"ok", "token_unregistered", "error"}

NoResult == [outcome |-> "none"]

\* no second pass is in flight
NoPass == [cycle_pc |-> "none"]

\* stats = {"sent": 0, "reminded_15": 0, "reminded_30": 0, "expired": 0, "skipped": 0}
ZeroStats == [sent |-> 0, reminded_15 |-> 0, reminded_30 |-> 0, expired |-> 0, skipped |-> 0]

-----------------------------------------------------------------------------
(* Initial state: profiles exist, nothing seeded, no pass in flight *)

Init ==
    /\ now = 0
    /\ users \in [Uids -> [fcm_token : {"tok"}, notification_prefs : PrefsChoices]]
    /\ notification_states = <<>>
    /\ daily_logs = <<>>
    /\ cycle_pc = "idle"
    /\ cycle_now = 0
    /\ states = <<>>
    /\ token_map = <<>>
    /\ stale_uids = {}
    /\ result = NoResult
    /\ stats = ZeroStats
    /\ parked = NoPass

cycle_vars == <<cycle_pc, cycle_now, states, token_map, stale_uids, result, stats, parked>>

-----------------------------------------------------------------------------
(* The clock *)

Tick(d, horizon) ==
    /\ now + d <= horizon
    /\ now' = now + d
    /\ UNCHANGED <<users, notification_states, daily_logs, cycle_vars>>

-----------------------------------------------------------------------------
(* Seeding *)

\* the upserts of one user's schedule, every slot with status "pending"
RECURSIVE SeedSlots(_, _, _, _)
SeedSlots(col, firebase_uid, date, slots) ==
    IF slots = <<>> THEN col
    ELSE SeedSlots(upsert_state(col, firebase_uid, date, slots[1].slot_label,
                                slots[1].notification_type, slots[1].scheduled_utc,
                                "pending", <<>>),
                   firebase_uid, date, Tail(slots))

\* seed_daily_states over every user, token or not
RECURSIVE SeedUsers_ignores_token(_, _, _, _)
SeedUsers_ignores_token(col, order, date_str, at) ==
    IF order = <<>> THEN col
    ELSE LET uid == order[1]
         IN  IF BuildRaises(users[uid]) THEN col
             ELSE SeedUsers_ignores_token(SeedSlots(col, uid, date_str,
                                      _build_schedule(users[uid], date_str, TRUE, at)),
                            Tail(order), date_str, at)

\* seed_daily_states: users holding a token, in cursor order; an exception
\* of _build_schedule ends the job with the earlier users already seeded
RECURSIVE SeedUsers(_, _, _, _)
SeedUsers(col, order, date_str, at) ==
    IF order = <<>> THEN col
    ELSE LET uid == order[1]
         IN  IF users[uid].fcm_token = Absent
             THEN SeedUsers(col, Tail(order), date_str, at)
             ELSE IF BuildRaises(users[uid]) THEN col
             ELSE SeedUsers(SeedSlots(col, uid, date_str,
                                      _build_schedule(users[uid], date_str, TRUE, at)),
                            Tail(order), date_str, at)

seed_daily_states(date_str) ==
    /\ notification_states' = SeedUsers(notification_states, UserOrder, date_str, now)
    /\ UNCHANGED <<now, users, daily_logs, cycle_vars>>

\* POST /preferences
save_preferences(uid, prefs) ==
    LET user  == [users[uid] EXCEPT !.notification_prefs = prefs]
        today == DateOf(now)
    IN  /\ users' = [users EXCEPT ![uid] = user]
        /\ notification_states' =
              IF BuildRaises(user) THEN notification_states
              ELSE SeedSlots(notification_states, uid, today,
                             _build_schedule(user, today, TRUE, now))
        /\ UNCHANGED <<now, daily_logs, cycle_vars>>

\* POST /register-token
register_token(uid, fcm_token) ==
    /\ users' = [users EXCEPT ![uid].fcm_token = fcm_token]
    /\ UNCHANGED <<now, notification_states, daily_logs, cycle_vars>>

-----------------------------------------------------------------------------
(* Action handlers *)

\* POST /ack
acknowledge(uid, slot_label, date) ==
    /\ notification_states' =
          mark_resolved(notification_states, uid, date, slot_label, "dismissed", now)
    /\ UNCHANGED <<now, users, daily_logs, cycle_vars>>

LoggedTypes == {"wake", "bedtime", "hydration"} \cup NUTRITION_MEAL_TYPES

\* the branch quick_log takes: "snoozed", "ok", or the HTTP error it raises
QuickLogOutcome(uid, notification_type, action) ==
    LET prefs   == users[uid].notification_prefs
        user_tz == IF "timezone" \in DOMAIN prefs THEN prefs.timezone
                   ELSE "Asia/Kolkata"
    IN  CASE action \in DOMAIN SNOOZE_MINUTES     -> "snoozed"
          [] action # "yes"                       -> "400"
          [] user_tz \notin KnownTimezones        -> "500"
          [] notification_type \notin LoggedTypes -> "400"
          [] OTHER                                -> "ok"

\* the day's document has room for the fact a quick_log would write
LogRoom(uid, notification_type, action, date, bound) ==
    QuickLogOutcome(uid, notification_type, action) = "ok" =>
        LogFacts(LogOf(daily_logs, uid, date)) < bound

\* POST /quick-log
quick_log(uid, notification_type, slot_label, action, date) ==
    LET prefs   == users[uid].notification_prefs
        user_tz == IF "timezone" \in DOMAIN prefs THEN prefs.timezone
                   ELSE "Asia/Kolkata"
        outcome == QuickLogOutcome(uid, notification_type, action)
    IN  /\ outcome = "snoozed" =>
              /\ notification_states' =
                    update_scheduled_utc(notification_states, uid, date, slot_label,
                                         now + SNOOZE_MINUTES[action], "pending")
              /\ daily_logs' = daily_logs
        /\ outcome = "ok" =>
              /\ daily_logs' =
                    LogUpsert(daily_logs, uid, date, notification_type,
                              _now_hhmm(user_tz, now))
              /\ notification_states' =
                    mark_resolved(notification_states, uid, date, slot_label, "yes", now)
        /\ outcome \in {"400", "500"} =>
              UNCHANGED <<notification_states, daily_logs>>
        /\ UNCHANGED <<now, users, cycle_vars>>

-----------------------------------------------------------------------------
(* Cycle engine: run_notification_cycle, one step per await that matters *)

\* the chain catching up: a pending document one interval overdue goes
\* straight to the first reminder
Transition_catches_up(state, at) ==
    CASE state.status = "pending" /\ at >= state.scheduled_utc + REMINDER_15_MINUTES ->
            [kind |-> "send", reminder_count |-> 1, status |-> "reminded_15",
             stamp |-> "reminded_15_at"]
      [] state.status = "pending" /\ at >= state.scheduled_utc ->
            [kind |-> "send", reminder_count |-> 0, status |-> "sent",
             stamp |-> "sent_at"]
      [] state.status = "sent" /\ state.sent_at # None
            /\ at >= state.sent_at + REMINDER_15_MINUTES ->
            [kind |-> "send", reminder_count |-> 1, status |-> "reminded_15",
             stamp |-> "reminded_15_at"]
      [] state.status = "reminded_15" /\ state.reminded_15_at # None
            /\ at >= state.reminded_15_at + REMINDER_15_MINUTES ->
            [kind |-> "send", reminder_count |-> 2, status |-> "reminded_30",
             stamp |-> "reminded_30_at"]
      [] state.status = "reminded_30" /\ state.reminded_30_at # None
            /\ at >= state.reminded_30_at + REMINDER_15_MINUTES ->
            [kind |-> "expire"]
      [] OTHER -> [kind |-> "none"]

\* the chain expiring a document as soon as its last reminder is out
Transition_expires_early(state, at) ==
    CASE state.status = "pending" /\ at >= state.scheduled_utc ->
            [kind |-> "send", reminder_count |-> 0, status |-> "sent",
             stamp |-> "sent_at"]
      [] state.status = "sent" /\ state.sent_at # None
            /\ at >= state.sent_at + REMINDER_15_MINUTES ->
            [kind |-> "send", reminder_count |-> 1, status |-> "reminded_15",
             stamp |-> "reminded_15_at"]
      [] state.status = "reminded_15" /\ state.reminded_15_at # None
            /\ at >= state.reminded_15_at + REMINDER_15_MINUTES ->
            [kind |-> "send", reminder_count |-> 2, status |-> "reminded_30",
             stamp |-> "reminded_30_at"]
      [] state.status = "reminded_30" /\ state.reminded_30_at # None
            /\ at >= state.reminded_30_at ->
            [kind |-> "expire"]
      [] OTHER -> [kind |-> "none"]

\* the chain with strict thresholds
Transition_strict(state, at) ==
    CASE state.status = "pending" /\ at > state.scheduled_utc ->
            [kind |-> "send", reminder_count |-> 0, status |-> "sent",
             stamp |-> "sent_at"]
      [] state.status = "sent" /\ state.sent_at # None
            /\ at > state.sent_at + REMINDER_15_MINUTES ->
            [kind |-> "send", reminder_count |-> 1, status |-> "reminded_15",
             stamp |-> "reminded_15_at"]
      [] state.status = "reminded_15" /\ state.reminded_15_at # None
            /\ at > state.reminded_15_at + REMINDER_15_MINUTES ->
            [kind |-> "send", reminder_count |-> 2, status |-> "reminded_30",
             stamp |-> "reminded_30_at"]
      [] state.status = "reminded_30" /\ state.reminded_30_at # None
            /\ at > state.reminded_30_at + REMINDER_15_MINUTES ->
            [kind |-> "expire"]
      [] OTHER -> [kind |-> "none"]

\* the chain sending a third reminder where the document should expire
Transition_reminds_thrice(state, at) ==
    CASE state.status = "pending" /\ at >= state.scheduled_utc ->
            [kind |-> "send", reminder_count |-> 0, status |-> "sent",
             stamp |-> "sent_at"]
      [] state.status = "sent" /\ state.sent_at # None
            /\ at >= state.sent_at + REMINDER_15_MINUTES ->
            [kind |-> "send", reminder_count |-> 1, status |-> "reminded_15",
             stamp |-> "reminded_15_at"]
      [] state.status = "reminded_15" /\ state.reminded_15_at # None
            /\ at >= state.reminded_15_at + REMINDER_15_MINUTES ->
            [kind |-> "send", reminder_count |-> 2, status |-> "reminded_30",
             stamp |-> "reminded_30_at"]
      [] state.status = "reminded_30" /\ state.reminded_30_at # None
            /\ at >= state.reminded_30_at + REMINDER_15_MINUTES ->
            [kind |-> "send", reminder_count |-> 3, status |-> "expired",
             stamp |-> "reminded_30_at"]
      [] OTHER -> [kind |-> "none"]

\* the branch of the if/elif chain a loaded document takes at instant `at`
Transition(state, at) ==
    CASE state.status = "pending" /\ at >= state.scheduled_utc ->
            [kind |-> "send", reminder_count |-> 0, status |-> "sent",
             stamp |-> "sent_at"]
      [] state.status = "sent" /\ state.sent_at # None
            /\ at >= state.sent_at + REMINDER_15_MINUTES ->
            [kind |-> "send", reminder_count |-> 1, status |-> "reminded_15",
             stamp |-> "reminded_15_at"]
      [] state.status = "reminded_15" /\ state.reminded_15_at # None
            /\ at >= state.reminded_15_at + REMINDER_15_MINUTES ->
            [kind |-> "send", reminder_count |-> 2, status |-> "reminded_30",
             stamp |-> "reminded_30_at"]
      [] state.status = "reminded_30" /\ state.reminded_30_at # None
            /\ at >= state.reminded_30_at + REMINDER_15_MINUTES ->
            [kind |-> "expire"]
      [] OTHER -> [kind |-> "none"]

\* to_fcm_data building every payload as a first send
to_fcm_data_first_send_only(state, date, is_reminder, reminder_count) ==
    [notification_type |-> state.notification_type,
     slot_label        |-> state.slot_label,
     date              |-> date,
     uid               |-> state.firebase_uid,
     is_reminder       |-> FALSE,
     reminder_count    |-> 0]

\* to_fcm_data: the payload fields the claims speak of
to_fcm_data(state, date, is_reminder, reminder_count) ==
    [notification_type |-> state.notification_type,
     slot_label        |-> state.slot_label,
     date              |-> date,
     uid               |-> state.firebase_uid,
     is_reminder       |-> is_reminder,
     reminder_count    |-> reminder_count]

\* the loop moves on to the next loaded document, or the pass returns
NextDocument ==
    /\ states' = Tail(states)
    /\ result' = NoResult
    /\ IF Tail(states) = <<>>
       THEN cycle_pc' = "idle" /\ token_map' = <<>>
       ELSE cycle_pc' = "loop" /\ token_map' = token_map

\* lines 212-223: capture now, load today's non-terminal documents
cycle_load ==
    /\ cycle_pc = "idle"
    /\ cycle_now' = now
    /\ states' = get_all_pending_states(notification_states, DateOf(now))
    /\ cycle_pc' = IF states' = <<>> THEN "idle" ELSE "tokens"
    /\ stale_uids' = {}
    /\ stats' = ZeroStats
    /\ UNCHANGED <<now, users, notification_states, daily_logs, token_map, result, parked>>

\* lines 225-238: one token lookup per pass
cycle_tokens ==
    /\ cycle_pc = "tokens"
    /\ token_map' = [uid \in {states[i].firebase_uid : i \in 1..Len(states)} |->
                        IF users[uid].fcm_token = Absent THEN ""
                        ELSE users[uid].fcm_token]
    /\ cycle_pc' = "loop"
    /\ UNCHANGED <<now, users, notification_states, daily_logs,
                   cycle_now, states, stale_uids, result, stats, parked>>

\* the skip test looking at the token snapshot only
Skipped_ignores_stale(uid) == token_map[uid] = ""

\* line 260: `if not token or uid in stale_uids`
Skipped(uid) == token_map[uid] = "" \/ uid \in stale_uids

\* lines 248-343 up to the gateway call: skip, leave alone, expire, or send
cycle_evaluate(outcomes) ==
    /\ cycle_pc = "loop"
    /\ LET state    == states[1]
           uid      == state.firebase_uid
           date_str == DateOf(cycle_now)
           tr       == Transition(state, cycle_now)
       IN  IF Skipped(uid)
           THEN /\ stats' = [stats EXCEPT !.skipped = @ + 1]
                /\ NextDocument
                /\ UNCHANGED notification_states
           ELSE IF tr.kind = "none"
           THEN /\ NextDocument
                /\ UNCHANGED <<notification_states, stats>>
           ELSE IF tr.kind = "expire"
           THEN /\ notification_states' =
                      upsert_state(notification_states, uid, date_str,
                                   state.slot_label, state.notification_type,
                                   state.scheduled_utc, "expired", <<>>)
                /\ stats' = [stats EXCEPT !.expired = @ + 1]
                /\ NextDocument
           ELSE /\ \E outcome \in outcomes :
                      result' = [outcome |-> outcome,
                                 token   |-> token_map[uid],
                                 data    |-> to_fcm_data(state, date_str,
                                                         tr.reminder_count > 0,
                                                         tr.reminder_count),
                                 status  |-> tr.status,
                                 stamp   |-> tr.stamp]
                /\ cycle_pc' = "write"
                /\ UNCHANGED <<notification_states, states, token_map, stats>>
    /\ UNCHANGED <<now, users, daily_logs, cycle_now, stale_uids, parked>>

\* the state write made whenever the token was not reported unregistered
cycle_commit_advances_on_error ==
    /\ cycle_pc = "write"
    /\ LET state    == states[1]
           uid      == state.firebase_uid
           date_str == DateOf(cycle_now)
       IN  /\ notification_states' =
                 IF result.outcome # "token_unregistered"
                 THEN upsert_state(notification_states, uid, date_str,
                                   state.slot_label, state.notification_type,
                                   state.scheduled_utc, result.status,
                                   [f \in {result.stamp} |-> cycle_now])
                 ELSE notification_states
           /\ stats' = IF result.outcome # "token_unregistered"
                       THEN [stats EXCEPT ![result.status] = @ + 1]
                       ELSE stats
           /\ IF result.outcome = "token_unregistered" /\ result.status = "sent"
              THEN /\ stale_uids' = stale_uids \cup {uid}
                   /\ users' = [users EXCEPT ![uid].fcm_token = Absent]
              ELSE UNCHANGED <<stale_uids, users>>
    /\ NextDocument
    /\ UNCHANGED <<now, daily_logs, cycle_now, parked>>

\* the state write that passes the status without the stage stamp
cycle_commit_forgets_stamp ==
    /\ cycle_pc = "write"
    /\ result.outcome \in GatewayOutcomes
    /\ LET state    == states[1]
           uid      == state.firebase_uid
           date_str == DateOf(cycle_now)
       IN  /\ notification_states' =
                 IF result.outcome = "ok"
                 THEN upsert_state(notification_states, uid, date_str,
                                   state.slot_label, state.notification_type,
                                   state.scheduled_utc, result.status, <<>>)
                 ELSE notification_states
           /\ stats' = IF result.outcome = "ok"
                       THEN [stats EXCEPT ![result.status] = @ + 1]
                       ELSE stats
           /\ IF result.outcome = "token_unregistered" /\ result.status = "sent"
              THEN /\ stale_uids' = stale_uids \cup {uid}
                   /\ users' = [users EXCEPT ![uid].fcm_token = Absent]
              ELSE UNCHANGED <<stale_uids, users>>
    /\ NextDocument
    /\ UNCHANGED <<now, daily_logs, cycle_now, parked>>

\* the state write counting the delivery whatever the gateway answered
cycle_commit_counts_failures ==
    /\ cycle_pc = "write"
    /\ result.outcome \in GatewayOutcomes
    /\ LET state    == states[1]
           uid      == state.firebase_uid
           date_str == DateOf(cycle_now)
       IN  /\ notification_states' =
                 IF result.outcome = "ok"
                 THEN upsert_state(notification_states, uid, date_str,
                                   state.slot_label, state.notification_type,
                                   state.scheduled_utc, result.status,
                                   [f \in {result.stamp} |-> cycle_now])
                 ELSE notification_states
           /\ stats' = [stats EXCEPT ![result.status] = @ + 1]
           /\ IF result.outcome = "token_unregistered" /\ result.status = "sent"
              THEN /\ stale_uids' = stale_uids \cup {uid}
                   /\ users' = [users EXCEPT ![uid].fcm_token = Absent]
              ELSE UNCHANGED <<stale_uids, users>>
    /\ NextDocument
    /\ UNCHANGED <<now, daily_logs, cycle_now, parked>>

\* after the gateway call returned: the state write, or the token purge
cycle_commit ==
    /\ cycle_pc = "write"
    /\ result.outcome \in GatewayOutcomes
    /\ LET state    == states[1]
           uid      == state.firebase_uid
           date_str == DateOf(cycle_now)
       IN  /\ notification_states' =
                 IF result.outcome = "ok"
                 THEN upsert_state(notification_states, uid, date_str,
                                   state.slot_label, state.notification_type,
                                   state.scheduled_utc, result.status,
                                   [f \in {result.stamp} |-> cycle_now])
                 ELSE notification_states
           /\ stats' = IF result.outcome = "ok"
                       THEN [stats EXCEPT ![result.status] = @ + 1]
                       ELSE stats
           /\ IF result.outcome = "token_unregistered" /\ result.status = "sent"
              THEN /\ stale_uids' = stale_uids \cup {uid}
                   /\ users' = [users EXCEPT ![uid].fcm_token = Absent]
              ELSE UNCHANGED <<stale_uids, users>>
    /\ NextDocument
    /\ UNCHANGED <<now, daily_logs, cycle_now, parked>>

-----------------------------------------------------------------------------
(* Specification: the clock, the handlers and one cycle pass, interleaved *)

Next ==
    \/ \E d \in TickSteps : Tick(d, MaxTime)
    \/ \E uid \in Uids, fcm_token \in RegisterTokens : register_token(uid, fcm_token)
    \/ \E uid \in Uids, prefs \in PrefsChoices : save_preferences(uid, prefs)
    \/ seed_daily_states(DateOf(now))
    \/ \E uid \in Uids, slot_label \in QuickLogSlots : acknowledge(uid, slot_label, DateOf(now))
    \/ \E uid \in Uids, notification_type \in QuickLogTypes,
          slot_label \in QuickLogSlots, action \in QuickLogActions :
          /\ LogRoom(uid, notification_type, action, DateOf(now), MaxLogEntries)
          /\ quick_log(uid, notification_type, slot_label, action, DateOf(now))
    \/ cycle_load
    \/ cycle_tokens
    \/ cycle_evaluate(GatewayOutcomes)
    \/ cycle_commit

Spec == Init /\ [][Next]_vars

-----------------------------------------------------------------------------
(* The reminder ladder left alone: today's schedule is seeded, the token is *)
(* valid, every delivery succeeds, no handler runs; the clock moves by the  *)
(* minute.                                                                  *)

LadderTickSteps == {1}
LadderLastInstant == 47

LadderPrefs == SleepOnly(<<"0", "0", ":", "0", "1">>, <<>>)

InitLadder ==
    /\ now = 0
    /\ users = [uid \in Uids |-> [fcm_token |-> "tok", notification_prefs |-> LadderPrefs]]
    /\ notification_states =
          SeedSlots(<<>>, "u1", 0, _build_schedule(users["u1"], 0, TRUE, 0))
    /\ daily_logs = <<>>
    /\ cycle_pc = "idle"
    /\ cycle_now = 0
    /\ states = <<>>
    /\ token_map = <<>>
    /\ stale_uids = {}
    /\ result = NoResult
    /\ stats = ZeroStats
    /\ parked = NoPass

NextLadder ==
    \/ \E d \in LadderTickSteps : Tick(d, LadderLastInstant)
    \/ cycle_load
    \/ cycle_tokens
    \/ cycle_evaluate({"ok"})
    \/ cycle_commit

SpecLadder == InitLadder /\ [][NextLadder]_vars

-----------------------------------------------------------------------------
(* Cycle passes over two records of one user: both slots of the day are     *)
(* seeded, the gateway answers as it likes, the user may register a token   *)
(* again, and no action handler runs.                                       *)

PassPrefs == SleepOnly(<<"0", "0", ":", "0", "0">>, <<"0", "0", ":", "0", "0">>)

InitPass ==
    /\ now = 0
    /\ users = [uid \in Uids |-> [fcm_token |-> "tok", notification_prefs |-> PassPrefs]]
    /\ notification_states =
          SeedSlots(<<>>, "u1", 0, _build_schedule(users["u1"], 0, TRUE, 0))
    /\ daily_logs = <<>>
    /\ cycle_pc = "idle"
    /\ cycle_now = 0
    /\ states = <<>>
    /\ token_map = <<>>
    /\ stale_uids = {}
    /\ result = NoResult
    /\ stats = ZeroStats
    /\ parked = NoPass

NextPass ==
    \/ \E d \in TickSteps : Tick(d, MaxTime)
    \/ \E uid \in Uids, fcm_token \in RegisterTokens : register_token(uid, fcm_token)
    \/ cycle_load
    \/ cycle_tokens
    \/ cycle_evaluate(GatewayOutcomes)
    \/ cycle_commit

SpecPass == InitPass /\ [][NextPass]_vars

-----------------------------------------------------------------------------
(* The schedule builder applied to preference sets of every shape: flags on *)
(* and off, a known, a second and an unknown timezone, a wake time that is  *)
(* valid, out of range or absent.  Preferences are saved and the day is     *)
(* seeded as the clock moves.                                               *)

BuildTimezones == {"UTC", "Asia/Kolkata", "Mars/Olympus"}

BuildWakeTimes == {<<"0", "0", ":", "0", "0">>, <<"0", "0", ":", "2", "0">>,
                   <<"2", "5", ":", "0", "0">>, <<>>}

BuildPrefs ==
    {[DEFAULT_PREFS EXCEPT !.timezone = tz,
                           !.global_enabled = g,
                           !.sleep_enabled = sl,
                           !.hydration_enabled = hy,
                           !.nutrition_enabled = FALSE,
                           !.wake_time = wake,
                           !.bedtime_time = <<>>] :
        tz \in BuildTimezones, g \in BOOLEAN, sl \in BOOLEAN, hy \in BOOLEAN,
        wake \in BuildWakeTimes}

\* user documents written before the preference form existed: no
\* notification_prefs at all, or only a wake time
BuildLegacyPrefs == {NoPrefs, [wake_time |-> <<"0", "0", ":", "2", "0">>]}

InitBuild ==
    /\ now = 0
    /\ users \in [Uids -> [fcm_token : {"tok"},
                           notification_prefs : BuildPrefs \cup BuildLegacyPrefs]]
    /\ notification_states = <<>>
    /\ daily_logs = <<>>
    /\ cycle_pc = "idle"
    /\ cycle_now = 0
    /\ states = <<>>
    /\ token_map = <<>>
    /\ stale_uids = {}
    /\ result = NoResult
    /\ stats = ZeroStats
    /\ parked = NoPass

NextBuild ==
    \/ \E d \in TickSteps : Tick(d, MaxTime)
    \/ \E uid \in Uids, prefs \in BuildPrefs : save_preferences(uid, prefs)
    \/ seed_daily_states(DateOf(now))

SpecBuild == InitBuild /\ [][NextBuild]_vars

-----------------------------------------------------------------------------
(* A late start: the store is empty, the user's wake slot is at 00:00 and   *)
(* the bedtime slot at 00:20 UTC; the seeding job and the cycle run at any  *)
(* instant, every delivery succeeds, no handler runs.                       *)

SeedTickSteps == {SCHEDULER_INTERVAL_MINUTES}

SeedPrefs == SleepOnly(<<"0", "0", ":", "0", "0">>, <<"0", "0", ":", "2", "0">>)

InitSeed ==
    /\ now = 0
    /\ users = [uid \in Uids |-> [fcm_token |-> "tok", notification_prefs |-> SeedPrefs]]
    /\ notification_states = <<>>
    /\ daily_logs = <<>>
    /\ cycle_pc = "idle"
    /\ cycle_now = 0
    /\ states = <<>>
    /\ token_map = <<>>
    /\ stale_uids = {}
    /\ result = NoResult
    /\ stats = ZeroStats
    /\ parked = NoPass

NextSeed ==
    \/ \E d \in SeedTickSteps : Tick(d, MaxTime)
    \/ seed_daily_states(DateOf(now))
    \/ cycle_load
    \/ cycle_tokens
    \/ cycle_evaluate({"ok"})
    \/ cycle_commit

SpecSeed == InitSeed /\ [][NextSeed]_vars

-----------------------------------------------------------------------------
(* The action handlers over two records of one user: both slots of the day  *)
(* are seeded, the user answers notifications in any order, no pass runs.   *)

\* facts a day's document may hold here: enough for a repeated answer
ActLogEntries == 2

InitAct ==
    /\ now = 0
    /\ users = [uid \in Uids |-> [fcm_token |-> "tok", notification_prefs |-> PassPrefs]]
    /\ notification_states =
          SeedSlots(<<>>, "u1", 0, _build_schedule(users["u1"], 0, TRUE, 0))
    /\ daily_logs = <<>>
    /\ cycle_pc = "idle"
    /\ cycle_now = 0
    /\ states = <<>>
    /\ token_map = <<>>
    /\ stale_uids = {}
    /\ result = NoResult
    /\ stats = ZeroStats
    /\ parked = NoPass

NextAct ==
    \/ \E d \in TickSteps : Tick(d, MaxTime)
    \/ \E uid \in Uids, slot_label \in QuickLogSlots :
          acknowledge(uid, slot_label, DateOf(now))
    \/ \E uid \in Uids, notification_type \in QuickLogTypes,
          slot_label \in QuickLogSlots, action \in QuickLogActions :
          /\ LogRoom(uid, notification_type, action, DateOf(now), ActLogEntries)
          /\ quick_log(uid, notification_type, slot_label, action, DateOf(now))

SpecAct == InitAct /\ [][NextAct]_vars

-----------------------------------------------------------------------------
(* Progress of a pass.  messaging.send is called without a timeout, in an   *)
(* executor the pass awaits: besides answering, the call may never return.  *)
(* The event loop resumes the pass whenever the awaited call has returned,  *)
(* which is the weak fairness of the steps of the pass.                     *)

LiveOutcomes == GatewayOutcomes \cup {"never_returns"}

NextLive ==
    \/ \E d \in TickSteps : Tick(d, MaxTime)
    \/ cycle_load
    \/ cycle_tokens
    \/ cycle_evaluate(LiveOutcomes)
    \/ cycle_commit

SpecLive ==
    /\ InitPass
    /\ [][NextLive]_vars
    /\ WF_vars(cycle_tokens)
    /\ WF_vars(cycle_evaluate(LiveOutcomes))
    /\ WF_vars(cycle_commit)

-----------------------------------------------------------------------------
(* The ladder across UTC midnight.  A user in UTC has the wake slot at      *)
(* 23:00 and the bedtime slot at 23:45; day 0 is seeded at 23:00, the token *)
(* is valid, every delivery succeeds and no handler runs.  The interval job *)
(* completes a pass at every instant before the clock moves on: the clock   *)
(* always advances and the event loop always resumes a pass.                *)

MidnightStart == MinutesPerDay - 60
\* 01:30 of day 1, in minutes since day 0 00:00
MidnightHorizon == 1530

MidnightPrefs == SleepOnly(<<"2", "3", ":", "0", "0">>, <<"2", "3", ":", "4", "5">>)

InitMidnight ==
    /\ now = MidnightStart
    /\ users = [uid \in Uids |-> [fcm_token |-> "tok", notification_prefs |-> MidnightPrefs]]
    /\ notification_states =
          SeedSlots(<<>>, "u1", DateOf(MidnightStart),
                    _build_schedule(users["u1"], DateOf(MidnightStart), TRUE, MidnightStart))
    /\ daily_logs = <<>>
    /\ cycle_pc = "idle"
    /\ cycle_now = 0
    /\ states = <<>>
    /\ token_map = <<>>
    /\ stale_uids = {}
    /\ result = NoResult
    /\ stats = ZeroStats
    /\ parked = NoPass

\* the clock moves once a pass has run at this instant
MidnightTick ==
    /\ cycle_pc = "idle"
    /\ cycle_now = now
    /\ \E d \in SeedTickSteps : Tick(d, MidnightHorizon)

NextMidnight ==
    \/ MidnightTick
    \/ cycle_load
    \/ cycle_tokens
    \/ cycle_evaluate({"ok"})
    \/ cycle_commit

SpecMidnight ==
    /\ InitMidnight
    /\ [][NextMidnight]_vars
    /\ SF_vars(MidnightTick)
    /\ WF_vars(cycle_load)
    /\ WF_vars(cycle_tokens)
    /\ WF_vars(cycle_evaluate({"ok"}))
    /\ WF_vars(cycle_commit)

-----------------------------------------------------------------------------
(* A second pass: POST /cycle awaits run_notification_cycle on the event    *)
(* loop the interval job runs on.  One of the two passes runs, the other is *)
(* suspended at an await with its locals; the loop may switch at any await. *)

\* the locals of the running pass
RunningPass ==
    [cycle_pc |-> cycle_pc, cycle_now |-> cycle_now, states |-> states,
     token_map |-> token_map, stale_uids |-> stale_uids, result |-> result,
     stats |-> stats]

\* the suspended pass p is resumed
Resumed(p) ==
    /\ cycle_pc' = p.cycle_pc
    /\ cycle_now' = p.cycle_now
    /\ states' = p.states
    /\ token_map' = p.token_map
    /\ stale_uids' = p.stale_uids
    /\ result' = p.result
    /\ stats' = p.stats

\* POST /cycle while a pass is in flight: the new pass captures now and loads
\* today's documents (lines 212-223), the pass in flight waits
trigger_cycle ==
    /\ cycle_pc # "idle"
    /\ parked = NoPass
    /\ parked' = RunningPass
    /\ cycle_now' = now
    /\ states' = get_all_pending_states(notification_states, DateOf(now))
    /\ cycle_pc' = IF states' = <<>> THEN "idle" ELSE "tokens"
    /\ token_map' = <<>>
    /\ stale_uids' = {}
    /\ result' = NoResult
    /\ stats' = ZeroStats
    /\ UNCHANGED <<now, users, notification_states, daily_logs>>

\* the event loop switches from one pass to the other at an await
switch_pass ==
    /\ parked # NoPass
    /\ cycle_pc # "idle"
    /\ parked' = RunningPass
    /\ Resumed(parked)
    /\ UNCHANGED <<now, users, notification_states, daily_logs>>

\* one pass has returned, the other goes on
resume_pass ==
    /\ parked # NoPass
    /\ cycle_pc = "idle"
    /\ parked' = NoPass
    /\ Resumed(parked)
    /\ UNCHANGED <<now, users, notification_states, daily_logs>>

-----------------------------------------------------------------------------
(* Two passes over the two seeded records of one user: every delivery       *)
(* succeeds, no handler runs.                                               *)

NextOverlap ==
    \/ \E d \in TickSteps : Tick(d, MaxTime)
    \/ cycle_load
    \/ cycle_tokens
    \/ cycle_evaluate({"ok"})
    \/ cycle_commit
    \/ trigger_cycle
    \/ switch_pass
    \/ resume_pass

SpecOverlap == InitPass /\ [][NextOverlap]_vars

-----------------------------------------------------------------------------
(* A user who has not opened the app yet: the profile holds preferences but *)
(* no device token, the store is empty.  The token is registered at any     *)
(* instant, the seeding job and the cycle run at any instant, and the       *)
(* gateway answers as it likes, so the token may be purged again.           *)

InitToken ==
    /\ now = 0
    /\ users = [uid \in Uids |-> [fcm_token |-> Absent, notification_prefs |-> SeedPrefs]]
    /\ notification_states = <<>>
    /\ daily_logs = <<>>
    /\ cycle_pc = "idle"
    /\ cycle_now = 0
    /\ states = <<>>
    /\ token_map = <<>>
    /\ stale_uids = {}
    /\ result = NoResult
    /\ stats = ZeroStats
    /\ parked = NoPass

NextToken ==
    \/ \E d \in SeedTickSteps : Tick(d, MaxTime)
    \/ \E uid \in Uids, fcm_token \in RegisterTokens : register_token(uid, fcm_token)
    \/ seed_daily_states(DateOf(now))
    \/ cycle_load
    \/ cycle_tokens
    \/ cycle_evaluate(GatewayOutcomes)
    \/ cycle_commit

SpecToken == InitToken /\ [][NextToken]_vars

-----------------------------------------------------------------------------
(* Vocabulary of the properties *)

Indices == 1..Len(notification_states)

NonTerminal == {"pending", "sent", "reminded_15", "reminded_30"}

SameKey(d, e) == KeyMatch(d, e.firebase_uid, e.date, e.slot_label)

\* a step of the cycle pass
CycleStep == cycle_load \/ cycle_tokens \/ cycle_evaluate(GatewayOutcomes) \/ cycle_commit

\* a step in which the gateway is called for document d
DeliveryFor(d) ==
    /\ result = NoResult /\ result' # NoResult
    /\ result'.data.uid = d.firebase_uid
    /\ result'.data.date = d.date
    /\ result'.data.slot_label = d.slot_label

\* a resolve-with-log or a dismiss addressed to document d
ResolveOf(d) ==
    \/ acknowledge(d.firebase_uid, d.slot_label, d.date)
    \/ \E notification_type \in QuickLogTypes :
          /\ QuickLogOutcome(d.firebase_uid, notification_type, "yes") = "ok"
          /\ quick_log(d.firebase_uid, notification_type, d.slot_label, "yes", d.date)

\* a snooze addressed to document d
SnoozeOf(d, action) ==
    \E notification_type \in QuickLogTypes :
        quick_log(d.firebase_uid, notification_type, d.slot_label, action, d.date)

\* a seeding upsert: the daily or manual seed, or a preference save
SeedStep ==
    \/ seed_daily_states(DateOf(now))
    \/ \E uid \in Uids, prefs \in PrefsChoices : save_preferences(uid, prefs)

-----------------------------------------------------------------------------
(* C1 - Resolution supersedes the pipeline.  A resolve-with-log or dismiss  *)
(* committing on a non-terminal record makes it resolved, and a cycle pass  *)
(* that starts after that commit neither loads the record, nor changes it,  *)
(* nor calls the gateway for it.                                            *)

C1_ResolutionSupersedes ==
    [][\A i \in Indices :
          LET d == notification_states[i]
          IN  /\ (d.status \in NonTerminal /\ ResolveOf(d)) =>
                    notification_states'[i].status = "resolved"
              /\ (d.status = "resolved" /\ d.resolved_at < cycle_now' /\ CycleStep) =>
                    /\ notification_states'[i] = d
                    /\ ~DeliveryFor(d)
                    /\ \A j \in 1..Len(states') : ~SameKey(states'[j], d)]_vars

\* a record resolved after its second reminder, and a pass started later
C1_Witness ==
    \E i \in Indices :
        /\ notification_states[i].status = "resolved"
        /\ notification_states[i].reminded_30_at # None
        /\ notification_states[i].resolved_at < cycle_now

-----------------------------------------------------------------------------
(* C2 - Last writer wins.  The state write of a pass is not guarded by the  *)
(* status it loaded: after a successful delivery the record takes the       *)
(* transition's status whatever the store holds by then, a resolution that  *)
(* committed in between included.                                           *)

C2_LastWriterWins ==
    [][(cycle_commit /\ result.outcome = "ok") =>
          \E i \in 1..Len(notification_states') :
              /\ SameKey(notification_states'[i], states[1])
              /\ notification_states'[i].status = result.status]_vars

\* a record back in reminded_15 although a resolution committed after the
\* pass that wrote reminded_15 had started
C2_Witness ==
    \E i \in Indices :
        /\ notification_states[i].status = "reminded_15"
        /\ notification_states[i].action_taken # "None"
        /\ notification_states[i].resolved_at >= notification_states[i].reminded_15_at
        /\ notification_states[i].sent_at # None

-----------------------------------------------------------------------------
(* C3 - Seeding never regresses a record: a seeding upsert that hits an     *)
(* existing record leaves its status and stage timestamps alone.            *)

C3_SeedNeverRegresses ==
    [][SeedStep =>
          \A i \in Indices :
              LET d == notification_states[i]
                  e == notification_states'[i]
              IN  /\ e.status = d.status
                  /\ e.sent_at = d.sent_at
                  /\ e.reminded_15_at = d.reminded_15_at
                  /\ e.reminded_30_at = d.reminded_30_at
                  /\ e.resolved_at = d.resolved_at]_vars

-----------------------------------------------------------------------------
(* C4 - Terminal states are terminal for the action handlers: no snooze,    *)
(* resolve-with-log or dismiss changes the status of a resolved or expired  *)
(* record.                                                                  *)

ActionOn(d) ==
    \/ ResolveOf(d)
    \/ \E action \in DOMAIN SNOOZE_MINUTES : SnoozeOf(d, action)

C4_TerminalIsTerminal ==
    [][\A i \in Indices :
          LET d == notification_states[i]
          IN  (d.status \in TERMINAL /\ ActionOn(d)) =>
                  notification_states'[i].status = d.status]_vars

(* C4 as amended: the handlers write unconditionally.  A snooze resets a    *)
(* resolved or expired record to pending with the new instant, and a        *)
(* resolve or dismiss makes an expired record resolved; only a resolve or   *)
(* dismiss of a resolved record leaves its status as it is.                 *)

C4_HandlersIgnoreTerminal ==
    [][\A i \in Indices :
          LET d == notification_states[i]
              e == notification_states'[i]
          IN  d.status \in TERMINAL =>
                /\ \A action \in DOMAIN SNOOZE_MINUTES :
                      SnoozeOf(d, action) =>
                          /\ e.status = "pending"
                          /\ e.scheduled_utc = now + SNOOZE_MINUTES[action]
                /\ ResolveOf(d) => e.status = "resolved"]_vars

\* a record resolved and, in the same instant, snoozed back to pending
C4_Witness ==
    \E i \in Indices :
        LET d == notification_states[i]
        IN  /\ d.status = "pending"
            /\ d.action_taken # "None"
            /\ d.resolved_at = now
            /\ d.scheduled_utc = now + SNOOZE_MINUTES.need_30_min

-----------------------------------------------------------------------------
(* C5 - Monotonicity.  Left alone and with every delivery succeeding, a     *)
(* record changes status only to the next stage of                          *)
(* pending -> sent -> reminded_15 -> reminded_30 -> expired, and a pass     *)
(* advances it by one stage at most, however overdue it is: the stage it    *)
(* leaves was not stamped by the same pass.                                 *)

Rank(status) ==
    CASE status = "pending"     -> 0
      [] status = "sent"        -> 1
      [] status = "reminded_15" -> 2
      [] status = "reminded_30" -> 3
      [] status = "expired"     -> 4
      [] OTHER                  -> 5

StageStamp(d) ==
    CASE d.status = "sent"        -> d.sent_at
      [] d.status = "reminded_15" -> d.reminded_15_at
      [] d.status = "reminded_30" -> d.reminded_30_at
      [] OTHER                    -> None

C5_Monotone ==
    [][\A i \in Indices :
          LET d == notification_states[i]
              e == notification_states'[i]
          IN  e.status # d.status =>
                  /\ Rank(e.status) = Rank(d.status) + 1
                  /\ StageStamp(d) < cycle_now]_vars

\* a record two intervals overdue when first loaded: the finished pass has
\* moved it to sent and no further
C5_Witness ==
    \E i \in Indices :
        LET d == notification_states[i]
        IN  /\ d.status = "sent"
            /\ d.sent_at >= d.scheduled_utc + 2 * REMINDER_15_MINUTES
            /\ cycle_pc = "idle" /\ cycle_now = d.sent_at

-----------------------------------------------------------------------------
(* C6 - Expiry timing: a record scheduled at T expires at exactly T + 3I.   *)

OnTime(d) ==
    /\ d.status = "reminded_30"
    /\ d.sent_at = d.scheduled_utc
    /\ d.reminded_15_at = d.scheduled_utc + REMINDER_15_MINUTES
    /\ d.reminded_30_at = d.scheduled_utc + 2 * REMINDER_15_MINUTES

-----------------------------------------------------------------------------
(* C7 - Snooze resets the clock: a snooze at `now` on a record in any       *)
(* non-terminal status makes it pending, scheduled at now + 15 or now + 30  *)
(* minutes, with sent_at, reminded_15_at and reminded_30_at cleared.        *)

C7_SnoozeResets ==
    [][\A i \in Indices :
          LET d == notification_states[i]
              e == notification_states'[i]
          IN  \A action \in DOMAIN SNOOZE_MINUTES :
                  (d.status \in NonTerminal /\ SnoozeOf(d, action)) =>
                      /\ e.status = "pending"
                      /\ e.scheduled_utc = now + (IF action = "need_15_min" THEN 15 ELSE 30)
                      /\ e.sent_at = None
                      /\ e.reminded_15_at = None
                      /\ e.reminded_30_at = None]_vars

\* a record that was never resolved and cannot have expired yet, snoozed by
\* 30 minutes at this instant
C7_Witness ==
    \E i \in Indices :
        LET d == notification_states[i]
        IN  /\ d.status = "pending"
            /\ d.action_taken = "None"
            /\ now >= REMINDER_15_MINUTES
            /\ now < 3 * REMINDER_15_MINUTES
            /\ d.scheduled_utc = now + 30
            /\ d.sent_at = None /\ d.reminded_15_at = None /\ d.reminded_30_at = None

-----------------------------------------------------------------------------
(* C8 - Key uniqueness and seed idempotence: the store never holds two      *)
(* records with the same (user, date, slot label), and seeding a second     *)
(* time for the same date adds no record to what the first seeding left.    *)

SeededOnce(col) == SeedUsers(col, UserOrder, DateOf(now), now)

C8_KeysUnique ==
    /\ \A i, j \in Indices :
          SameKey(notification_states[i], notification_states[j]) => i = j
    /\ Len(SeededOnce(SeededOnce(notification_states)))
          = Len(SeededOnce(notification_states))

\* a sent record that a seed at this instant would hit, adding nothing
C8_Witness ==
    /\ \E i \in Indices : notification_states[i].status = "sent"
    /\ SeededOnce(notification_states) # notification_states
    /\ Len(SeededOnce(notification_states)) = Len(notification_states)

-----------------------------------------------------------------------------
(* C9 - Thresholds are inclusive and exact.  A pass that started at         *)
(* cycle_now acts on a loaded record iff cycle_now has reached the record's *)
(* threshold: the scheduled instant when pending, the stamp of its stage    *)
(* plus I otherwise.  Before the threshold the record is left as it is and  *)
(* the gateway is not called; at the threshold the gateway is called with   *)
(* the counter of the stage, or the record expires.                         *)

Threshold(d) ==
    IF d.status = "pending" THEN d.scheduled_utc ELSE StageStamp(d) + 15

C9_ThresholdsInclusive ==
    [][cycle_evaluate({"ok"}) =>
          LET d == states[1]
          IN  IF cycle_now >= Threshold(d)
              THEN IF d.status = "reminded_30"
                   THEN /\ result' = NoResult
                        /\ \E i \in Indices :
                              /\ SameKey(notification_states[i], d)
                              /\ notification_states'[i].status = "expired"
                   ELSE /\ result' # NoResult
                        /\ result'.data.slot_label = d.slot_label
                        /\ result'.data.reminder_count = Rank(d.status)
                        /\ result'.status # d.status
              ELSE /\ result' = NoResult
                   /\ notification_states' = notification_states]_vars

\* a record that moved to reminded_15 exactly one interval after its send,
\* and that a finished pass 14 minutes later has left in reminded_15
C9_Witness ==
    /\ cycle_pc = "idle" /\ now = cycle_now
    /\ \E i \in Indices :
          LET d == notification_states[i]
          IN  /\ d.status = "reminded_15"
              /\ d.reminded_15_at = d.sent_at + 15
              /\ cycle_now = d.reminded_15_at + 14

-----------------------------------------------------------------------------
(* C10 - Permanent token failure: whenever a delivery of a pass fails as    *)
(* token_unregistered, the record is left as it was, the user's token is    *)
(* removed from the profile store and the user is stale for the rest of     *)
(* the pass.                                                                *)

C10_TokenFailurePurges ==
    [][(cycle_commit /\ result.outcome = "token_unregistered") =>
          /\ notification_states' = notification_states
          /\ users'[states[1].firebase_uid].fcm_token = Absent
          /\ states[1].firebase_uid \in stale_uids']_vars

-----------------------------------------------------------------------------
(* C11 - Transient delivery failure.  When a delivery of a pass, at any     *)
(* stage, fails with an error other than an unregistered token, the commit  *)
(* changes neither the store nor the user's token nor the stale set, and    *)
(* the record as loaded keeps asking for the same transition with the same  *)
(* reminder counter at every later instant.                                 *)

C11_TransientFailureRetries ==
    [][(cycle_commit /\ result.outcome = "error") =>
          /\ notification_states' = notification_states
          /\ users' = users
          /\ stale_uids' = stale_uids
          /\ \A at \in cycle_now..MaxTime :
                LET tr == Transition(states[1], at)
                IN  /\ tr.kind = "send"
                    /\ tr.reminder_count = result.data.reminder_count
                    /\ tr.status = result.status]_vars

\* the pass at 00:15 trying the first send of bedtime again: the pass at
\* 00:00 delivered wake, so it tried bedtime too and failed
C11_Witness ==
    /\ cycle_pc = "write" /\ cycle_now = REMINDER_15_MINUTES
    /\ result.outcome = "error"
    /\ result.data.slot_label = "bedtime" /\ result.data.reminder_count = 0
    /\ \E i, j \in Indices :
          /\ notification_states[i].slot_label = "wake"
          /\ notification_states[i].sent_at = 0
          /\ notification_states[j].slot_label = "bedtime"
          /\ notification_states[j].status = "pending"

-----------------------------------------------------------------------------
(* C12 - Skipped records are untouched.  A loaded record whose user has no  *)
(* usable token in the pass's token snapshot, or was marked stale earlier   *)
(* in the pass, is left as it is, no delivery is attempted for it, and the  *)
(* skipped counter grows by exactly one, the other counters staying.        *)

C12_SkippedUntouched ==
    [][( /\ cycle_evaluate(GatewayOutcomes)
         /\ \/ token_map[states[1].firebase_uid] = ""
            \/ states[1].firebase_uid \in stale_uids ) =>
          /\ notification_states' = notification_states
          /\ users' = users
          /\ result' = NoResult
          /\ stats' = [stats EXCEPT !.skipped = stats.skipped + 1]]_vars

\* a finished pass that skipped one record because an earlier record of the
\* pass had marked the user stale
C12_Witness ==
    /\ cycle_pc = "idle"
    /\ stale_uids = {"u1"}
    /\ stats.skipped = 1
    /\ \E i \in Indices : notification_states[i].status = "reminded_15"

-----------------------------------------------------------------------------
(* C13 - Expiry needs no delivery: every record a pass loads in status      *)
(* reminded_30 with now >= reminded_30_at + I is expired by that pass,      *)
(* without a delivery attempt.                                              *)

ExpiryDue(d) ==
    /\ d.status = "reminded_30"
    /\ d.reminded_30_at # None
    /\ cycle_now >= d.reminded_30_at + REMINDER_15_MINUTES

ExpiredBy(d) ==
    /\ result' = NoResult
    /\ \E i \in 1..Len(notification_states') :
          /\ SameKey(notification_states'[i], d)
          /\ notification_states'[i].status = "expired"

C13_ExpiryNeedsNoDelivery ==
    [][(cycle_evaluate(GatewayOutcomes) /\ ExpiryDue(states[1])) =>
          ExpiredBy(states[1])]_vars

(* C13 as amended: the skip test comes first.  A record due for expiry is   *)
(* expired, without a delivery attempt, when its user has a usable token in *)
(* the pass's snapshot and is not stale; otherwise it is skipped and stays  *)
(* as it is.                                                                *)

C13_ExpiryNeedsToken ==
    [][(cycle_evaluate(GatewayOutcomes) /\ ExpiryDue(states[1])) =>
          IF \/ token_map[states[1].firebase_uid] = ""
             \/ states[1].firebase_uid \in stale_uids
          THEN /\ notification_states' = notification_states
               /\ result' = NoResult
          ELSE /\ ExpiredBy(states[1])
               /\ stats'.expired = stats.expired + 1]_vars

\* a finished pass that found bedtime due for expiry and skipped it, the
\* failed send of wake having marked the user stale
C13_Witness ==
    /\ cycle_pc = "idle"
    /\ stale_uids = {"u1"}
    /\ stats.skipped = 1
    /\ \E j \in Indices :
          /\ notification_states[j].slot_label = "bedtime"
          /\ ExpiryDue(notification_states[j])

-----------------------------------------------------------------------------
(* C14 - Slot not found is rejected.  A resolve-with-log, snooze or dismiss *)
(* naming a (user, date, slot) that has no record is answered with a client *)
(* error and changes nothing: no record is created or changed and no        *)
(* health-log fact is written.                                              *)

NoRecord(uid, date, slot_label) ==
    Matches(notification_states, uid, date, slot_label) = {}

C14_SlotNotFoundRejected ==
    [][\A uid \in Uids, slot_label \in QuickLogSlots :
          NoRecord(uid, DateOf(now), slot_label) =>
            /\ acknowledge(uid, slot_label, DateOf(now)) =>
                  notification_states' = notification_states
            /\ \A notification_type \in QuickLogTypes,
                  action \in {"yes"} \cup DOMAIN SNOOZE_MINUTES :
                  quick_log(uid, notification_type, slot_label, action, DateOf(now)) =>
                    /\ QuickLogOutcome(uid, notification_type, action) = "400"
                    /\ notification_states' = notification_states
                    /\ daily_logs' = daily_logs]_vars

-----------------------------------------------------------------------------
(* C15 - Unknown actions are rejected without mutation.  A quick-log        *)
(* request whose action is none of yes, need_15_min, need_30_min, or whose  *)
(* notification kind is not a known kind, is answered with a client error   *)
(* and leaves the store and the health log as they are.                     *)

C15_UnknownRejected ==
    [][\A uid \in Uids, notification_type \in QuickLogTypes,
          slot_label \in QuickLogSlots, action \in QuickLogActions :
          ( /\ \/ action \notin {"yes", "need_15_min", "need_30_min"}
               \/ notification_type \notin LoggedTypes
            /\ quick_log(uid, notification_type, slot_label, action, DateOf(now)) ) =>
              /\ QuickLogOutcome(uid, notification_type, action) = "400"
              /\ notification_states' = notification_states
              /\ daily_logs' = daily_logs]_vars

-----------------------------------------------------------------------------
(* C16 - Timestamp ordering.  Whatever the interleaving of passes, actions  *)
(* and seeds, a record with reminded_30_at set has sent_at and              *)
(* reminded_15_at set, and a step that unsets sent_at unsets the three      *)
(* stage timestamps together.                                               *)

C16_StampsOrdered ==
    [][\A i \in Indices :
          LET d == notification_states[i]
              e == notification_states'[i]
          IN  /\ e.reminded_30_at # None =>
                    (e.sent_at # None /\ e.reminded_15_at # None)
              /\ (d.sent_at # None /\ e.sent_at = None) =>
                    (e.reminded_15_at = None /\ e.reminded_30_at = None)]_vars

-----------------------------------------------------------------------------
(* C17 - Timestamps only for stages passed.  A pending record has no stage  *)
(* timestamp, a sent record has neither reminded_15_at nor reminded_30_at,  *)
(* a reminded_15 record has no reminded_30_at, and resolved_at is set only  *)
(* while the status is resolved.                                            *)

C17_StampsMatchStatus ==
    \A i \in Indices :
        LET d == notification_states[i]
        IN  /\ d.status = "pending" =>
                  (d.sent_at = None /\ d.reminded_15_at = None /\ d.reminded_30_at = None)
            /\ d.status = "sent" =>
                  (d.reminded_15_at = None /\ d.reminded_30_at = None)
            /\ d.status = "reminded_15" => d.reminded_30_at = None
            /\ d.resolved_at # None => d.status = "resolved"

-----------------------------------------------------------------------------
(* C18 - Preference edits re-seed the whole day.  Saving preferences builds *)
(* the schedule with skip_past = false: every slot of today, those whose    *)
(* instant has passed included, is upserted, and each record's scheduled    *)
(* instant is the one computed from the new preferences.                    *)

HasRecordAt(col, uid, date, slot_label, scheduled_utc) ==
    \E i \in 1..Len(col) :
        /\ KeyMatch(col[i], uid, date, slot_label)
        /\ col[i].scheduled_utc = scheduled_utc

C18_PrefsReseedWholeDay ==
    [][\A uid \in Uids, prefs \in BuildPrefs :
          (save_preferences(uid, prefs) /\ ~BuildRaises(users'[uid])) =>
              LET slots == _build_schedule(users'[uid], DateOf(now), FALSE, now)
              IN  \A k \in 1..Len(slots) :
                      HasRecordAt(notification_states', uid, DateOf(now),
                                  slots[k].slot_label, slots[k].scheduled_utc)]_vars

-----------------------------------------------------------------------------
(* C19 - Malformed times never fail the schedule.  For every preference set *)
(* the schedule builder returns normally; a slot whose time is unparseable  *)
(* or absent is left out and every other enabled slot with a valid time is  *)
(* returned, hence seeded by the preference save when it is not yet past.   *)

C19_MalformedNeverFail ==
    [][\A uid \in Uids, prefs \in BuildPrefs :
          save_preferences(uid, prefs) =>
            /\ ~BuildRaises(users'[uid])
            /\ \A i \in 1..Len(SlotTable) :
                  LET e == SlotTable[i]
                  IN  ( /\ prefs.global_enabled /\ prefs[e.flag]
                        /\ StrpTimeOk(prefs[e.key])
                        /\ _parse_local_time(prefs[e.key], DateOf(now), prefs.timezone) >= now ) =>
                          HasRecordAt(notification_states', uid, DateOf(now), e.slot_label,
                                      _parse_local_time(prefs[e.key], DateOf(now), prefs.timezone))]_vars

-----------------------------------------------------------------------------
(* C20 - Global kill switch.  With global_enabled false, whatever the       *)
(* category flags, times, timezone, date and skip_past, the schedule        *)
(* builder returns the empty list, and a preference save or a seed creates  *)
(* or updates no record of that user.                                       *)

BuildDates == {0, 1}

C20_GlobalKillSwitch ==
    [][\A uid \in Uids :
          ~MergedPrefs(users'[uid]).global_enabled =>
            /\ \A date_str \in BuildDates, skip_past \in BOOLEAN :
                  _build_schedule(users'[uid], date_str, skip_past, now) = <<>>
            /\ ( \/ seed_daily_states(DateOf(now))
                 \/ \E prefs \in BuildPrefs : save_preferences(uid, prefs) ) =>
                  notification_states' = notification_states]_vars

\* the switch is off, a wake time that strptime rejects is stored with it,
\* and the records seeded while the switch was on are still there
C20_Witness ==
    /\ ~MergedPrefs(users["u1"]).global_enabled
    /\ MergedPrefs(users["u1"]).sleep_enabled
    /\ ParseRaises(MergedPrefs(users["u1"]).wake_time)
    /\ \E i \in Indices : notification_states[i].slot_label = "wake"
    /\ now > 0

-----------------------------------------------------------------------------
(* C21 - Full schedule shape.  For valid preferences (every slot time      *)
(* parses) with the global switch on, the schedule builder returns exactly *)
(* the slots of the enabled categories, each once: 16 with all three       *)
(* categories on, and switching one category off removes that category's   *)
(* 2, 6 or 8 slots and no others.                                          *)

SleepSlots == {"wake", "bedtime"}
MealSlots == {"breakfast", "mid_morning", "lunch", "afternoon_break", "dinner", "post_dinner"}
HydrationSlots == {"hydration_1", "hydration_2", "hydration_3", "hydration_4", "hydration_5", "hydration_6", "hydration_7", "hydration_8"}

ValidPrefs(prefs) ==
    \A i \in 1..Len(SlotTable) : StrpTimeOk(prefs[SlotTable[i].key])

\* the user document with the category flags replaced and the switch on
WithFlags(user_doc, s, n, h) ==
    [user_doc EXCEPT !.notification_prefs =
        [global_enabled |-> TRUE, sleep_enabled |-> s,
         nutrition_enabled |-> n, hydration_enabled |-> h] @@ MergedPrefs(user_doc)]

ExpectedLabels(s, n, h) ==
    (IF s THEN SleepSlots ELSE {}) \cup (IF n THEN MealSlots ELSE {})
        \cup (IF h THEN HydrationSlots ELSE {})

LabelsOf(slots) == {slots[k].slot_label : k \in 1..Len(slots)}

ShapeHolds(user_doc, date_str, skip_past) ==
    \A s \in BOOLEAN, n \in BOOLEAN, h \in BOOLEAN :
        LET slots == _build_schedule(WithFlags(user_doc, s, n, h), date_str, skip_past, now)
        IN  /\ LabelsOf(slots) = ExpectedLabels(s, n, h)
            /\ Len(slots) = Cardinality(ExpectedLabels(s, n, h))

\* as stated: whatever skip_past is
C21_FullScheduleShape ==
    \A uid \in Uids, date_str \in BuildDates, skip_past \in BOOLEAN :
        ValidPrefs(MergedPrefs(users[uid])) => ShapeHolds(users[uid], date_str, skip_past)

\* with skip_past false the shape holds; with skip_past true the slots
\* returned are those of the shape that are not before the instant of the call
C21_ShapeWithoutSkip ==
    \A uid \in Uids, date_str \in BuildDates :
        ValidPrefs(MergedPrefs(users[uid])) =>
            /\ ShapeHolds(users[uid], date_str, FALSE)
            /\ \A s \in BOOLEAN, n \in BOOLEAN, h \in BOOLEAN :
                  LET doc  == WithFlags(users[uid], s, n, h)
                      all  == _build_schedule(doc, date_str, FALSE, now)
                      left == _build_schedule(doc, date_str, TRUE, now)
                  IN  left = SelectSeq(all, LAMBDA x : x.scheduled_utc >= now)

\* a user with valid times and every category on was seeded: the store holds
\* the sixteen slots of the day, and the clock has passed a slot of another
\* valid preference set
C21_Witness ==
    /\ ValidPrefs(MergedPrefs(users["u1"]))
    /\ MergedPrefs(users["u1"]).nutrition_enabled
    /\ {notification_states[i].slot_label : i \in Indices} = SlotLabels
    /\ Len(notification_states) = 16
    /\ now > 0

-----------------------------------------------------------------------------
(* C22 - The schedule builder is deterministic.  Two calls with the same   *)
(* preferences, target date and skip_past return the same list whenever    *)
(* they are made: here one call at the start of the day and one now.       *)

BuildInstants == {0, now}

\* as stated: whatever skip_past is
C22_Deterministic ==
    \A uid \in Uids, date_str \in BuildDates, skip_past \in BOOLEAN :
        ~BuildRaises(users[uid]) =>
            \A t1 \in BuildInstants, t2 \in BuildInstants :
                _build_schedule(users[uid], date_str, skip_past, t1)
                    = _build_schedule(users[uid], date_str, skip_past, t2)

\* with skip_past false the list does not depend on the instant of the call;
\* with skip_past true the later call returns the earlier call's list
\* without the slots that became past in between
C22_DeterministicGivenClock ==
    \A uid \in Uids, date_str \in BuildDates :
        ~BuildRaises(users[uid]) =>
            /\ \A t1 \in BuildInstants, t2 \in BuildInstants :
                  _build_schedule(users[uid], date_str, FALSE, t1)
                      = _build_schedule(users[uid], date_str, FALSE, t2)
            /\ \A t1 \in BuildInstants, t2 \in BuildInstants :
                  t1 <= t2 =>
                      _build_schedule(users[uid], date_str, TRUE, t2)
                          = SelectSeq(_build_schedule(users[uid], date_str, TRUE, t1),
                                      LAMBDA x : x.scheduled_utc >= t2)

\* the clock moved past a slot of the stored preferences: the two calls with
\* skip_past true differ, the two with skip_past false return the slot
C22_Witness ==
    /\ now > 0
    /\ ~BuildRaises(users["u1"])
    /\ _build_schedule(users["u1"], 0, TRUE, 0) # _build_schedule(users["u1"], 0, TRUE, now)
    /\ _build_schedule(users["u1"], 0, FALSE, now) # <<>>

-----------------------------------------------------------------------------
(* C23 - No backlog on batch seed.  A seeding job run at instant t upserts  *)
(* exactly the enabled slots whose instant is not before t: each of them    *)
(* has a pending record at its instant afterwards, and a slot already past  *)
(* gets no record and keeps the one it has.  A slot that was past with no   *)
(* record never gets one, and no pass calls the gateway for it.             *)

C23_NoBacklogOnSeed ==
    [][\A uid \in Uids :
          LET date == DateOf(now)
              all  == _build_schedule(users[uid], date, FALSE, now)
          IN  \A k \in 1..Len(all) :
                  LET slot == all[k]
                      old  == Matches(notification_states, uid, date, slot.slot_label)
                      new  == Matches(notification_states', uid, date, slot.slot_label)
                  IN  /\ (seed_daily_states(date) /\ slot.scheduled_utc >= now) =>
                            /\ new # {}
                            /\ \A i \in new :
                                  /\ notification_states'[i].scheduled_utc = slot.scheduled_utc
                                  /\ notification_states'[i].status = "pending"
                      /\ (seed_daily_states(date) /\ slot.scheduled_utc < now) =>
                            /\ new = old
                            /\ \A i \in old : notification_states'[i] = notification_states[i]
                      /\ (old = {} /\ slot.scheduled_utc < now) =>
                            /\ new = {}
                            /\ ~(/\ result' # NoResult
                                 /\ result'.data.uid = uid
                                 /\ result'.data.slot_label = slot.slot_label)]_vars

\* seeded late: the wake slot has no record, the bedtime slot seeded after
\* the wake instant was delivered by a later pass
C23_Witness ==
    /\ NoRecord("u1", 0, "wake")
    /\ \E i \in Indices :
          /\ notification_states[i].slot_label = "bedtime"
          /\ notification_states[i].sent_at # None
    /\ cycle_pc = "idle"

-----------------------------------------------------------------------------
(* C24 - Local time to UTC.  Every slot the schedule builder returns has    *)
(* the instant of the target date at the slot's local HH:MM in the user's   *)
(* timezone, expressed in UTC: local time minus the zone's offset.  A       *)
(* hydration_1 slot at 08:45 in Asia/Kolkata (UTC+05:30) on day 0 is at     *)
(* 03:15Z of day 0, and the seeded record carries that instant.             *)

\* minutes east of UTC of the zones the users can pick
EastOfUtc == [tz \in {"UTC", "Asia/Kolkata"} |-> IF tz = "UTC" THEN 0 ELSE 5 * 60 + 30]

SlotOf(slots, slot_label) ==
    {k \in 1..Len(slots) : slots[k].slot_label = slot_label}

C24_LocalToUtc ==
    \A uid \in Uids, date_str \in BuildDates :
        LET prefs == MergedPrefs(users[uid])
            slots == _build_schedule(users[uid], date_str, FALSE, now)
        IN  (~BuildRaises(users[uid]) /\ prefs.timezone \in DOMAIN EastOfUtc) =>
              /\ \A i \in 1..Len(SlotTable) :
                    \A k \in SlotOf(slots, SlotTable[i].slot_label) :
                        slots[k].scheduled_utc + EastOfUtc[prefs.timezone]
                            = date_str * 24 * 60 + StrpTime(prefs[SlotTable[i].key])
              /\ (prefs.hydration_1_time = <<"0", "8", ":", "4", "5">>) =>
                    \A k \in SlotOf(slots, "hydration_1") :
                        slots[k].scheduled_utc =
                            IF prefs.timezone = "Asia/Kolkata"
                            THEN date_str * 24 * 60 + 3 * 60 + 15
                            ELSE date_str * 24 * 60 + 8 * 60 + 45
              /\ (prefs.wake_time = <<"0", "0", ":", "2", "0">>) =>
                    \A k \in SlotOf(slots, "wake") :
                        slots[k].scheduled_utc =
                            IF prefs.timezone = "Asia/Kolkata"
                            THEN (date_str - 1) * 24 * 60 + 18 * 60 + 50
                            ELSE date_str * 24 * 60 + 20

\* a user in Asia/Kolkata was seeded on day 0: the hydration_1 record of
\* 08:45 local time is at 03:15Z, and the clock has moved
C24_Witness ==
    /\ MergedPrefs(users["u1"]).timezone = "Asia/Kolkata"
    /\ \E i \in Indices :
          /\ notification_states[i].slot_label = "hydration_1"
          /\ notification_states[i].date = 0
          /\ notification_states[i].scheduled_utc = 195
    /\ now > 0

-----------------------------------------------------------------------------
(* C25 - Timezone fallback.  When the stored preferences carry a timezone   *)
(* identifier that is not a known zone, or carry no timezone at all, the    *)
(* schedule builder reads every slot's local time as UTC: the instant is    *)
(* the target date at that HH:MM UTC.                                       *)

NoTimezone(user_doc) == "timezone" \notin DOMAIN user_doc.notification_prefs

UnknownTimezone(user_doc) ==
    /\ ~NoTimezone(user_doc)
    /\ user_doc.notification_prefs.timezone \notin KnownTimezones

\* every slot returned for the date is at its HH:MM, moved west by `east`
SlotsAtOffset(user_doc, date_str, east) ==
    LET prefs == MergedPrefs(user_doc)
        slots == _build_schedule(user_doc, date_str, FALSE, now)
    IN  /\ slots # <<>>
        /\ \A i \in 1..Len(SlotTable) :
              \A k \in SlotOf(slots, SlotTable[i].slot_label) :
                  slots[k].scheduled_utc
                      = date_str * 24 * 60 + StrpTime(prefs[SlotTable[i].key]) - east

Builds(user_doc) ==
    /\ ~BuildRaises(user_doc)
    /\ _build_schedule(user_doc, 0, FALSE, now) # <<>>

\* as stated: unknown or missing, the times are UTC
C25_FallbackToUtc ==
    \A uid \in Uids, date_str \in BuildDates :
        (Builds(users[uid]) /\ (UnknownTimezone(users[uid]) \/ NoTimezone(users[uid]))) =>
            SlotsAtOffset(users[uid], date_str, 0)

\* an unknown identifier falls back to UTC; preferences without a timezone
\* take the default zone, Asia/Kolkata, five and a half hours east
C25_UnknownIsUtcMissingIsDefault ==
    \A uid \in Uids, date_str \in BuildDates :
        Builds(users[uid]) =>
            /\ UnknownTimezone(users[uid]) => SlotsAtOffset(users[uid], date_str, 0)
            /\ NoTimezone(users[uid]) => SlotsAtOffset(users[uid], date_str, 5 * 60 + 30)

\* preferences with an unknown zone and a wake time of 00:20 are stored and
\* seeded: the wake record is at 00:20Z
C25_Witness ==
    /\ UnknownTimezone(users["u1"])
    /\ users["u1"].notification_prefs.wake_time = <<"0", "0", ":", "2", "0">>
    /\ \E i \in Indices :
          /\ notification_states[i].slot_label = "wake"
          /\ notification_states[i].scheduled_utc = 20
    /\ now > 0

-----------------------------------------------------------------------------
(* C26 - Snooze and dismiss write no health-log fact.  A snooze and a       *)
(* dismiss leave the health-log store as it was; a dismiss makes the        *)
(* addressed record resolved with action tag "dismissed"; neither changes   *)
(* a record other than the one addressed by (user, date, slot), nor adds or *)
(* removes one.                                                             *)

OthersUntouched(uid, date, slot_label) ==
    /\ Len(notification_states') = Len(notification_states)
    /\ \A i \in Indices :
          ~KeyMatch(notification_states[i], uid, date, slot_label) =>
              notification_states'[i] = notification_states[i]

C26_SnoozeDismissNoLog ==
    [][\A uid \in Uids, slot_label \in QuickLogSlots :
          LET date == DateOf(now)
          IN  /\ acknowledge(uid, slot_label, date) =>
                    /\ daily_logs' = daily_logs
                    /\ OthersUntouched(uid, date, slot_label)
                    /\ \A i \in Matches(notification_states', uid, date, slot_label) :
                          /\ notification_states'[i].status = "resolved"
                          /\ notification_states'[i].action_taken = "dismissed"
              /\ \A action \in DOMAIN SNOOZE_MINUTES, notification_type \in QuickLogTypes :
                    quick_log(uid, notification_type, slot_label, action, date) =>
                        /\ daily_logs' = daily_logs
                        /\ OthersUntouched(uid, date, slot_label)]_vars

\* a health-log fact is on file, the wake record was dismissed afterwards
\* and the bedtime record is snoozed
C26_Witness ==
    /\ daily_logs # <<>>
    /\ \E i \in Indices :
          /\ notification_states[i].slot_label = "wake"
          /\ notification_states[i].status = "resolved"
          /\ notification_states[i].action_taken = "dismissed"
    /\ \E i \in Indices :
          /\ notification_states[i].slot_label = "bedtime"
          /\ notification_states[i].status = "pending"
          /\ notification_states[i].scheduled_utc > 0

-----------------------------------------------------------------------------
(* C27 - A cycle pass runs to completion.  Whatever the gateway does for    *)
(* one record, a call that never returns included, a pass that has started  *)
(* eventually evaluates every loaded record and ends.                       *)

C27_PassRunsToCompletion ==
    (cycle_pc # "idle") ~> (cycle_pc = "idle" /\ states = <<>>)

-----------------------------------------------------------------------------
(* C28 - Every forward transition is backed by a successful delivery with   *)
(* the matching counter.  A record takes status sent, reminded_15 or        *)
(* reminded_30 only in the write that follows a gateway call of the same    *)
(* pass for that record which returned success and carried reminder counter *)
(* 0, 1 or 2 (reminder flag false for 0, true otherwise); the gateway is    *)
(* called only for a record loaded as pending, sent or reminded_15, with    *)
(* the counter of that status.                                              *)

CounterOf == [status \in {"sent", "reminded_15", "reminded_30"} |->
                 IF status = "sent" THEN 0 ELSE IF status = "reminded_15" THEN 1 ELSE 2]

LoadedCounter == [status \in {"pending", "sent", "reminded_15"} |->
                     IF status = "pending" THEN 0 ELSE IF status = "sent" THEN 1 ELSE 2]

C28_ForwardNeedsDelivery ==
    [][/\ \A i \in 1..Len(notification_states') :
             LET new == notification_states'[i]
             IN  ( /\ new.status \in DOMAIN CounterOf
                   /\ (i \in Indices => notification_states[i] # new) ) =>
                     /\ cycle_pc = "write"
                     /\ result.outcome = "ok"
                     /\ result.data.uid = new.firebase_uid
                     /\ result.data.date = new.date
                     /\ result.data.slot_label = new.slot_label
                     /\ result.data.reminder_count = CounterOf[new.status]
                     /\ result.data.is_reminder = (CounterOf[new.status] > 0)
       /\ (result = NoResult /\ result' # NoResult) =>
             /\ states # <<>>
             /\ states[1].status \in DOMAIN LoadedCounter
             /\ result'.data.slot_label = states[1].slot_label
             /\ result'.data.reminder_count = LoadedCounter[states[1].status]
             /\ result'.data.is_reminder = (states[1].status # "pending")]_vars

\* the final reminder of one record was delivered and written, the final
\* reminder of the other has just been accepted by the gateway
C28_Witness ==
    /\ cycle_pc = "write"
    /\ result.outcome = "ok"
    /\ result.data.reminder_count = 2
    /\ result.data.is_reminder
    /\ \E i \in Indices :
          /\ notification_states[i].status = "reminded_30"
          /\ notification_states[i].reminded_30_at = cycle_now
          /\ notification_states[i].slot_label # result.data.slot_label

-----------------------------------------------------------------------------
(* C29 - Resolve-with-log writes the fact that matches the slot's kind.  A  *)
(* "yes" on a slot that has a record writes the health-log fact of the      *)
(* stored record's kind and resolves the record: when the request states    *)
(* another kind than the record's, no fact of the stated kind is written.   *)

C29_FactMatchesStoredKind ==
    [][\A uid \in Uids, slot_label \in QuickLogSlots, notification_type \in QuickLogTypes :
          LET date == DateOf(now)
              hit  == Matches(notification_states, uid, date, slot_label)
          IN  ( /\ hit # {}
                /\ quick_log(uid, notification_type, slot_label, "yes", date)
                /\ daily_logs' # daily_logs ) =>
                  /\ \A i \in hit : notification_states[i].notification_type = notification_type
                  /\ daily_logs' = LogUpsert(daily_logs, uid, date,
                                             notification_states[FirstMatch(notification_states, uid, date, slot_label)].notification_type,
                                             _now_hhmm(MergedPrefs(users[uid]).timezone, now))]_vars

-----------------------------------------------------------------------------
(* C30 - A committed snooze is honoured under any interleaving.  Once a     *)
(* snooze of d minutes has committed at instant t, no step of a cycle pass  *)
(* changes the record or calls the gateway for its slot before t + d, a     *)
(* pass that loaded the record before the snooze included.                  *)

\* the record as a snooze committed at this instant leaves it
JustSnoozed(d) ==
    /\ d.status = "pending"
    /\ d.sent_at = None /\ d.reminded_15_at = None /\ d.reminded_30_at = None
    /\ \E action \in DOMAIN SNOOZE_MINUTES : d.scheduled_utc = now + SNOOZE_MINUTES[action]

C30_SnoozeHonoured ==
    [][\A i \in Indices :
          LET d == notification_states[i]
          IN  (JustSnoozed(d) /\ CycleStep) =>
                  /\ notification_states'[i] = d
                  /\ ~DeliveryFor(d)]_vars

-----------------------------------------------------------------------------
(* C31 - Resolve-with-log is idempotent on the health log.  A "yes" on a    *)
(* slot whose record is already resolved by a "yes", a double tap, leaves   *)
(* the health log with the entries and the hydration total it had.          *)

C31_ResolveLogIdempotent ==
    [][\A uid \in Uids, slot_label \in QuickLogSlots, notification_type \in QuickLogTypes :
          LET date == DateOf(now)
              hit  == Matches(notification_states, uid, date, slot_label)
          IN  ( /\ hit # {}
                /\ \A i \in hit : /\ notification_states[i].status = "resolved"
                                  /\ notification_states[i].action_taken = "yes"
                /\ quick_log(uid, notification_type, slot_label, "yes", date) ) =>
                  daily_logs' = daily_logs]_vars

-----------------------------------------------------------------------------
(* C32 - Bounded lifetime.  With a pass at every instant, a valid token,    *)
(* every delivery succeeding and no user action, every seeded record is     *)
(* eventually sent and eventually expired, a record whose reminder ladder   *)
(* crosses UTC midnight included.                                           *)

MidnightSlots == {"wake", "bedtime"}

C32_EveryRecordExpires ==
    \A slot_label \in MidnightSlots :
        /\ <>(\E i \in Indices : /\ notification_states[i].slot_label = slot_label
                                 /\ notification_states[i].sent_at # None)
        /\ <>(\E i \in Indices : /\ notification_states[i].slot_label = slot_label
                                 /\ notification_states[i].status = "expired")

-----------------------------------------------------------------------------
(* C33 - At most one delivery per stage.  A delivery with counter 0, 1 or 2 *)
(* is accepted by the gateway for a record only when no delivery with that  *)
(* counter was accepted for it before: the record's stamp of that stage is  *)
(* unset and no other pass holds an accepted delivery of that stage for it, *)
(* two passes overlapping included.  No snooze occurs here.                 *)

StampOfCounter == <<"sent_at", "reminded_15_at", "reminded_30_at">>

\* the gateway accepts a delivery in this step
Accepted ==
    /\ cycle_pc = "loop" /\ cycle_pc' = "write"
    /\ parked' = parked
    /\ result'.outcome = "ok"

\* the suspended pass holds an accepted delivery with this payload
ParkedHolds(data) ==
    /\ parked # NoPass
    /\ parked.result # NoResult
    /\ parked.result.outcome = "ok"
    /\ parked.result.data = data

C33_OneDeliveryPerStage ==
    [][Accepted =>
          /\ ~ParkedHolds(result'.data)
          /\ \A i \in Indices :
                LET d == notification_states[i]
                IN  ( /\ d.firebase_uid = result'.data.uid
                      /\ d.date = result'.data.date
                      /\ d.slot_label = result'.data.slot_label ) =>
                        d[StampOfCounter[result'.data.reminder_count + 1]] = None]_vars

-----------------------------------------------------------------------------
(* C34 - Status implies its own timestamp.  In every reachable state, under *)
(* every interleaving of passes, actions and seeds: a record in status sent *)
(* has sent_at, in reminded_15 has reminded_15_at, in reminded_30 has       *)
(* reminded_30_at, and a resolved record has resolved_at and action_taken.  *)

C34_StatusHasItsStamp ==
    \A i \in Indices :
        LET d == notification_states[i]
        IN  /\ d.status = "sent" => d.sent_at # None
            /\ d.status = "reminded_15" => d.reminded_15_at # None
            /\ d.status = "reminded_30" => d.reminded_30_at # None
            /\ d.status = "resolved" => (d.resolved_at # None /\ d.action_taken # "None")

\* a record resolved by the user, snoozed afterwards and delivered again: in
\* status sent with its stamp, the resolution's fields still on it
C34_Witness ==
    \E i \in Indices :
        LET d == notification_states[i]
        IN  /\ d.status = "sent"
            /\ d.sent_at # None
            /\ d.resolved_at # None
            /\ d.sent_at > d.resolved_at

-----------------------------------------------------------------------------
(* C35 - Token presence gates seeding.  The seeding job creates or changes  *)
(* no record of a user who has no device token when it runs; for a user who *)
(* has one, registered at any time of the day, it creates or changes only   *)
(* records of slots whose instant is not before the instant of the seed.    *)

C35_TokenGatesSeeding ==
    [][seed_daily_states(DateOf(now)) =>
          \A uid \in Uids :
              LET old == {i \in Indices : notification_states[i].firebase_uid = uid}
                  new == {i \in 1..Len(notification_states') :
                              notification_states'[i].firebase_uid = uid}
                  touched == {i \in new : i \notin old
                                           \/ notification_states'[i] # notification_states[i]}
              IN  /\ users[uid].fcm_token = Absent => touched = {}
                  /\ \A i \in touched :
                        /\ notification_states'[i].scheduled_utc >= now
                        /\ notification_states'[i].date = DateOf(now)]_vars

\* the token was registered after the wake instant and the day was seeded
\* then: the bedtime slot has its record, the wake slot has none
C35_Witness ==
    /\ users["u1"].fcm_token # Absent
    /\ now > 0
    /\ NoRecord("u1", 0, "wake")
    /\ \E i \in Indices :
          /\ notification_states[i].slot_label = "bedtime"
          /\ notification_states[i].status = "pending"

-----------------------------------------------------------------------------
(* C36 - Cycle counters are exact.  A pass starts with every counter at 0;  *)
(* each step of the pass raises the counter sent, reminded_15, reminded_30  *)
(* or expired by one exactly when it moves the record it is working on from *)
(* the preceding status to that status, and the counter skipped by one      *)
(* exactly when it passes over the record for a missing or stale token; a   *)
(* failed delivery raises no counter, and the counters never add up to more *)
(* than the number of records loaded.                                       *)

Moves == [sent |-> "pending", reminded_15 |-> "sent",
          reminded_30 |-> "reminded_15", expired |-> "reminded_30"]

Total(st) == st.sent + st.reminded_15 + st.reminded_30 + st.expired + st.skipped

\* the step writes `status` on the record the pass loaded as `from`
MovedTo(status, from) ==
    /\ states[1].status = from
    /\ \E i \in 1..Len(notification_states') :
          /\ SameKey(notification_states'[i], states[1])
          /\ notification_states'[i].status = status
          /\ (i \in Indices => notification_states[i] # notification_states'[i])

PassedOver ==
    /\ cycle_pc = "loop"
    /\ \/ token_map[states[1].firebase_uid] = ""
       \/ states[1].firebase_uid \in stale_uids

C36_CountersExact ==
    [][/\ cycle_load => stats' = ZeroStats
       /\ (cycle_evaluate(GatewayOutcomes) \/ cycle_commit) =>
             /\ \A c \in DOMAIN Moves :
                   stats'[c] = stats[c] + (IF MovedTo(c, Moves[c]) THEN 1 ELSE 0)
             /\ stats'.skipped = stats.skipped + (IF PassedOver THEN 1 ELSE 0)
             /\ Total(stats') + Len(states') <= Total(stats) + Len(states)
             /\ (cycle_pc = "write" /\ result.outcome # "ok") => stats' = stats]_vars

\* a finished pass over two records, one of them a stage behind after a
\* failed delivery: one first send and one first reminder counted
C36_Witness ==
    /\ cycle_pc = "idle"
    /\ stats = [ZeroStats EXCEPT !.sent = 1, !.reminded_15 = 1]
    /\ \E i \in Indices : notification_states[i].status = "sent"
    /\ \E i \in Indices : notification_states[i].status = "reminded_15"

====
